---- MODULE Spec2Model ----
(***************************************************************************)
(* Assessment and progress state engine of the NIST AI RMF training        *)
(* course: the React client (progress derivation, quiz page, scenario      *)
(* engine, progress provider, API wrappers) together with the progress     *)
(* store behind the /api endpoints.                                        *)
(***************************************************************************)
EXTENDS Integers, Sequences, FiniteSets, TLC

(***************************************************************************)
(* Bounds of the model.                                                    *)
(***************************************************************************)
\* requests the learner issues in one run (lessons, quizzes, choices, resets)
MaxRequests == 2
\* reset requests issued in one run
MaxResets == 1
\* requests and responses that may be outstanding at the same time
MaxInFlight == 2
MaxNavigations == 4
\* how many times the learner acts on the capstone page
MaxChanges == 6

(***************************************************************************)
(* Encodings of JavaScript's "absent" values.                              *)
(***************************************************************************)
\* quizScore / accumulatedPoints / passingScore that is undefined
Absent == -1
\* an id that is null, undefined or ''
NoId == ""

DEFAULT_PASSING_SCORE == 70

(***************************************************************************)
(* Content definitions (static for a session).                             *)
(***************************************************************************)
ModuleDefs ==
  << [id |-> "module-1", lessons |-> <<"l1", "l2">>, quizId |-> "quiz-1",
      scenarioId |-> "scenario-1", badge |-> "risk-framer",
      passingScore |-> Absent],
     [id |-> "module-2", lessons |-> << >>, quizId |-> "quiz-2",
      scenarioId |-> NoId, badge |-> NoId,
      passingScore |-> Absent] >>

ModuleIds == {ModuleDefs[i].id : i \in DOMAIN ModuleDefs}

ModuleById(moduleId) ==
  ModuleDefs[CHOOSE i \in DOMAIN ModuleDefs : ModuleDefs[i].id = moduleId]

\* a quiz of two multiple_choice questions, one true_false and one multi_select
QuizQuestions ==
  << [type |-> "multiple_choice", correctIndex |-> 0],
     [type |-> "multiple_choice", correctIndex |-> 1],
     [type |-> "true_false", correctAnswer |-> TRUE],
     [type |-> "multi_select", correctIndices |-> <<0, 2>>] >>

\* quiz-1 defines no passing score, quiz-2 defines 80
QuizDefs ==
  [q \in {"quiz-1", "quiz-2"} |->
     [id |-> q,
      passingScore |-> IF q = "quiz-1" THEN Absent ELSE 80,
      questions |-> QuizQuestions]]

QuizIds == DOMAIN QuizDefs

\* the ascending sequence of the numbers of a set
SortedFromSet(S) ==
  CHOOSE f \in [1 .. Cardinality(S) -> S] :
    \A i, j \in 1 .. Cardinality(S) : i < j => f[i] < f[j]

\* QuizEngine.handleMultiSelectToggle: the answer of a multi_select question
\* after the option `index` is clicked
handleMultiSelectToggle(answer, index) ==
  LET current == {answer[i] : i \in DOMAIN answer}
  IN SortedFromSet(IF index \in current THEN current \ {index} ELSE current \cup {index})

RECURSIVE Toggled(_)
\* the multi_select answer after a sequence of clicks on an empty selection
Toggled(clicks) ==
  IF clicks = << >> THEN << >>
  ELSE handleMultiSelectToggle(Toggled(SubSeq(clicks, 1, Len(clicks) - 1)),
                               clicks[Len(clicks)])

\* the answer maps the learner may submit: 4, 3 and 2 correct answers; the
\* multi_select answers are Toggled(<<2, 0>>), Toggled(<<0>>) and
\* Toggled(<<0, 2, 2>>)
AnswerSheets ==
  { <<0, 1, TRUE, <<0, 2>>>>,
    <<0, 1, TRUE, <<0>>>>,
    <<0, 1, FALSE, <<0>>>> }

NoAnswers == << >>

\* answers[questionId] of a question nothing was selected for: undefined
Unanswered(question) ==
  [chosen |-> FALSE,
   value |-> CASE question.type = "multiple_choice" -> Absent
               [] question.type = "true_false" -> FALSE
               [] question.type = "multi_select" -> << >>]

\* useState({}) for answers
NoSelections == [i \in DOMAIN QuizQuestions |-> Unanswered(QuizQuestions[i])]

ScenarioDefs ==
  [s \in {"scenario-1"} |->
     [id |-> s,
      maxPoints |-> 10,
      steps |-> << [id |-> "s1",
                    choices |-> << [points |-> 1, nextStepId |-> "s2", feedback |-> "f"],
                                   [points |-> 0, nextStepId |-> NoId, feedback |-> "f"],
                                   [points |-> 6, nextStepId |-> NoId, feedback |-> "f"] >>],
                   [id |-> "s2",
                    choices |-> << [points |-> 9, nextStepId |-> NoId, feedback |-> "f"],
                                   [points |-> 5, nextStepId |-> NoId, feedback |-> "f"] >>] >>]]

ScenarioIds == DOMAIN ScenarioDefs

TheScenario == ScenarioDefs["scenario-1"]

StepById(scenario, stepId) ==
  scenario.steps[CHOOSE i \in DOMAIN scenario.steps : scenario.steps[i].id = stepId]

StepIds(scenario) == {scenario.steps[i].id : i \in DOMAIN scenario.steps}

(***************************************************************************)
(* The progress document.                                                  *)
(***************************************************************************)
EmptyModuleProgress ==
  [lessonsCompleted |-> {}, quizScore |-> Absent, quizAttempts |-> 0,
   quizPassed |-> FALSE, badgeEarned |-> FALSE]

NoScenarios == [s \in {} |-> 0]

\* the capstone state of a learner who saved nothing
NoCapstone == [selectedSystem |-> NoId, currentStep |-> Absent, responses |-> {}]

DefaultProgress ==
  [modules |-> [m \in ModuleIds |-> EmptyModuleProgress],
   scenarios |-> NoScenarios,
   badges |-> {},
   capstone |-> NoCapstone]

(***************************************************************************)
(* utils/progress: derivation of completion, status and badges.            *)
(***************************************************************************)
getModuleId(module) == module.id

getModuleLessons(module) == module.lessons

getLessonId(lesson) == lesson

getModuleProgress(progress, moduleId) == progress.modules[moduleId]

getCompletedLessonCount(module, moduleProgress) ==
  LET lessons == getModuleLessons(module)
      completedSet == moduleProgress.lessonsCompleted
  \* reduce: one is counted for every lesson of the list whose id is in the set
  IN Cardinality({i \in DOMAIN lessons : getLessonId(lessons[i]) \in completedSet})

moduleQuizPassed(moduleProgress, module) ==
  IF moduleProgress.quizPassed = TRUE THEN TRUE
  ELSE LET passingScore == IF module.passingScore # Absent
                           THEN module.passingScore
                           ELSE DEFAULT_PASSING_SCORE
           score == moduleProgress.quizScore
       IN score # Absent /\ score >= passingScore

isModuleCompletedEither(module, moduleProgress) ==
  LET lessonCount == Len(getModuleLessons(module))
      lessonsComplete ==
        lessonCount = 0 \/ getCompletedLessonCount(module, moduleProgress) >= lessonCount
  IN lessonsComplete \/ moduleQuizPassed(moduleProgress, module)

isModuleCompleted(module, moduleProgress) ==
  LET lessonCount == Len(getModuleLessons(module))
      lessonsComplete ==
        lessonCount = 0 \/ getCompletedLessonCount(module, moduleProgress) >= lessonCount
  IN lessonsComplete /\ moduleQuizPassed(moduleProgress, module)

getModuleStatusLessonsOnly(module, moduleProgress) ==
  IF isModuleCompleted(module, moduleProgress) THEN "completed"
  ELSE IF getCompletedLessonCount(module, moduleProgress) > 0
       THEN "in_progress" ELSE "not_started"

getModuleStatus(module, moduleProgress) ==
  IF isModuleCompleted(module, moduleProgress) THEN "completed"
  ELSE LET completedLessons == getCompletedLessonCount(module, moduleProgress)
           attempts == moduleProgress.quizAttempts
           hasActivity == \/ completedLessons > 0
                          \/ attempts > 0
                          \/ moduleProgress.quizScore # Absent
       IN IF hasActivity THEN "in_progress" ELSE "not_started"

countCompletedModules(modules, progress) ==
  \* reduce: one is counted for every module of the list that is completed
  Cardinality({i \in DOMAIN modules :
                 isModuleCompleted(modules[i],
                   getModuleProgress(progress, getModuleId(modules[i])))})

allModulesCompleted(modules, progress) ==
  IF Len(modules) = 0 THEN FALSE
  ELSE \A i \in DOMAIN modules :
         isModuleCompleted(modules[i], getModuleProgress(progress, getModuleId(modules[i])))

\* Math.round(num / den) for num >= 0 and den > 0
MathRound(num, den) == (2 * num + den) \div (2 * den)

overallProgressPercentFloor(modules, progress) ==
  IF Len(modules) = 0 THEN 0
  ELSE (100 * countCompletedModules(modules, progress)) \div Len(modules)

overallProgressPercent(modules, progress) ==
  IF Len(modules) = 0 THEN 0
  ELSE MathRound(100 * countCompletedModules(modules, progress), Len(modules))

hasPerfectScore(progress) ==
  \E m \in DOMAIN progress.modules :
    /\ progress.modules[m].quizScore # Absent
    /\ progress.modules[m].quizScore >= 100

hasExcellentScenarioStrict(progress) ==
  \E s \in DOMAIN progress.scenarios :
    LET score == progress.scenarios[s].score
        maxScore == progress.scenarios[s].maxScore
    IN /\ maxScore > 0
       /\ 10 * score > 9 * maxScore

hasExcellentScenario(progress) ==
  \E s \in DOMAIN progress.scenarios :
    LET score == progress.scenarios[s].score
        maxScore == progress.scenarios[s].maxScore
    IN /\ maxScore > 0
       \* score / maxScore >= 0.9
       /\ 10 * score >= 9 * maxScore

deriveEarnedBadgeIds(progress, modules) ==
  LET fromModules ==
        { modules[i].badge : i \in
            { j \in DOMAIN modules :
                /\ modules[j].badge # NoId
                /\ \/ getModuleProgress(progress, getModuleId(modules[j])).badgeEarned
                   \/ isModuleCompleted(modules[j],
                        getModuleProgress(progress, getModuleId(modules[j]))) } }
  IN progress.badges
       \cup fromModules
       \cup (IF hasPerfectScore(progress) THEN {"perfect-score"} ELSE {})
       \cup (IF hasExcellentScenario(progress) THEN {"scenario-star"} ELSE {})
       \cup (IF allModulesCompleted(modules, progress) THEN {"completionist"} ELSE {})


(***************************************************************************)
(* utils/api: the request each wrapper puts on the wire.  A request is     *)
(* [kind, args, body]: args are the arguments the caller passed, body is   *)
(* what is sent (URL parameters included).                                 *)
(***************************************************************************)
NoArgs == [none |-> TRUE]

markLessonCompleteBody(moduleId, lessonId) ==
  [moduleId |-> moduleId, lessonId |-> lessonId]

submitQuizBodyNoAnswers(quizId, answers, moduleId) ==
  [quizId |-> quizId, answers |-> NoAnswers, moduleId |-> moduleId]

submitQuizBodyFirstModule(quizId, answers, moduleId) ==
  [quizId |-> quizId, answers |-> answers, moduleId |-> ModuleDefs[1].id]

submitQuizBody(quizId, answers, moduleId) ==
  [quizId |-> quizId, answers |-> answers, moduleId |-> moduleId]

\* the wrapper declares three parameters: a fourth argument is not sent
submitScenarioChoiceBody(scenarioId, stepId, choiceIndex, accumulatedPoints) ==
  [scenarioId |-> scenarioId, stepId |-> stepId, choiceIndex |-> choiceIndex,
   accumulatedPoints |-> Absent]

LessonRequest(moduleId, lessonId) ==
  [kind |-> "lesson",
   args |-> [moduleId |-> moduleId, lessonId |-> lessonId],
   body |-> markLessonCompleteBody(moduleId, lessonId)]

QuizRequest(quizId, answers, moduleId) ==
  [kind |-> "quiz",
   args |-> [quizId |-> quizId, answers |-> answers, moduleId |-> moduleId],
   body |-> submitQuizBody(quizId, answers, moduleId)]

ChoiceRequest(scenarioId, stepId, choiceIndex, accumulatedPoints) ==
  [kind |-> "choice",
   args |-> [scenarioId |-> scenarioId, stepId |-> stepId,
             choiceIndex |-> choiceIndex, accumulatedPoints |-> accumulatedPoints],
   body |-> submitScenarioChoiceBody(scenarioId, stepId, choiceIndex, accumulatedPoints)]

ResetRequest == [kind |-> "reset", args |-> NoArgs, body |-> NoArgs]

\* saveCapstone(data): the payload is the body
CapstoneRequest(payload) == [kind |-> "capstone", args |-> payload, body |-> payload]

GetProgressRequest == [kind |-> "getProgress", args |-> NoArgs, body |-> NoArgs]

\* fetchJSON: a 2xx answer resolves with the payload, any other status throws
Response(req, ok, data) ==
  [kind |-> req.kind, args |-> req.args, ok |-> ok, data |-> data]

ErrorPayload == [error |-> TRUE]

(***************************************************************************)
(* The server side of /api: quiz grading, scenario steps and the progress  *)
(* store.                                                                  *)
(***************************************************************************)
\* Math.round of a non-negative quotient
Round(num, den) == (2 * num + den) \div (2 * den)

\* correctness of one answer, by question type
IsCorrect(question, answer) ==
  CASE question.type = "multiple_choice" -> answer = question.correctIndex
    [] question.type = "true_false" -> answer = question.correctAnswer
    [] question.type = "multi_select" ->
         {answer[i] : i \in DOMAIN answer}
           = {question.correctIndices[i] : i \in DOMAIN question.correctIndices}

QuestionResults(quiz, answers) ==
  [i \in DOMAIN quiz.questions |->
     i \in DOMAIN answers /\ IsCorrect(quiz.questions[i], answers[i])]

CorrectCount(quiz, answers) ==
  Cardinality({ i \in DOMAIN quiz.questions : QuestionResults(quiz, answers)[i] })

QuizPassingScoreNoDefault(quiz) == quiz.passingScore

\* typeof quiz?.passingScore === 'number' ? quiz.passingScore : 70
QuizPassingScore(quiz) ==
  IF quiz.passingScore # Absent THEN quiz.passingScore ELSE 70

GradeQuiz(quiz, answers) ==
  LET correctCount == CorrectCount(quiz, answers)
      totalQuestions == Len(quiz.questions)
      score == Round(100 * correctCount, totalQuestions)
  IN [score |-> score,
      passed |-> score >= QuizPassingScore(quiz),
      correctCount |-> correctCount,
      totalQuestions |-> totalQuestions,
      results |-> QuestionResults(quiz, answers)]

QuizRequestValid(body) ==
  /\ body.quizId \in QuizIds
  /\ body.moduleId \in ModuleIds
  /\ Len(QuizDefs[body.quizId].questions) > 0

IsNewlyEarnedOnEveryPass(old, passed, module) ==
  passed /\ module.badge # NoId

\* the first time `passed` became true for a module that defines a badge
IsNewlyEarned(old, passed, module) ==
  passed /\ ~old.quizPassed /\ module.badge # NoId

\* a grading that records the score and does not count the attempt
ApplyQuizResultUncounted(doc, moduleId, graded, cacheBadge) ==
  [doc EXCEPT !.modules[moduleId].quizScore = graded.score,
              !.modules[moduleId].quizPassed = @ \/ graded.passed]

ApplyQuizResult(doc, moduleId, graded, cacheBadge) ==
  LET old == doc.modules[moduleId]
      module == ModuleById(moduleId)
      newly == IsNewlyEarned(old, graded.passed, module)
      new == [old EXCEPT !.quizAttempts = @ + 1,
                         !.quizScore = graded.score,
                         !.quizPassed = @ \/ graded.passed,
                         !.badgeEarned = @ \/ newly]
  IN [doc EXCEPT !.modules[moduleId] = new,
                 !.badges = IF newly /\ cacheBadge THEN @ \cup {module.badge} ELSE @]

NoBadge == [id |-> NoId, isNew |-> FALSE]

QuizResult(doc, moduleId, graded, newDoc) ==
  LET module == ModuleById(moduleId)
      newly == IsNewlyEarned(doc.modules[moduleId], graded.passed, module)
  IN [score |-> graded.score,
      passed |-> graded.passed,
      correctCount |-> graded.correctCount,
      totalQuestions |-> graded.totalQuestions,
      results |-> graded.results,
      badgeEarned |-> IF newly THEN [id |-> module.badge, isNew |-> TRUE] ELSE NoBadge,
      progress |-> newDoc]

\* a validation that looks at the module id only
LessonRequestValidModuleOnly(body) == body.moduleId \in ModuleIds

LessonRequestValid(body) ==
  /\ body.moduleId \in ModuleIds
  /\ \E i \in DOMAIN ModuleById(body.moduleId).lessons :
       ModuleById(body.moduleId).lessons[i] = body.lessonId

ApplyLessonCompleteOverwrite(doc, moduleId, lessonId) ==
  [doc EXCEPT !.modules[moduleId].lessonsCompleted = {lessonId}]

ApplyLessonComplete(doc, moduleId, lessonId) ==
  [doc EXCEPT !.modules[moduleId].lessonsCompleted = @ \cup {lessonId}]

ChoiceRequestValid(body) ==
  /\ body.scenarioId \in ScenarioIds
  /\ body.stepId \in StepIds(ScenarioDefs[body.scenarioId])
  /\ body.choiceIndex \in
       0 .. (Len(StepById(ScenarioDefs[body.scenarioId], body.stepId).choices) - 1)

\* choice indices are zero-based on the wire
ChoiceOf(body) ==
  StepById(ScenarioDefs[body.scenarioId], body.stepId).choices[body.choiceIndex + 1]

IsTerminal(scenario, choice) ==
  choice.nextStepId = NoId \/ choice.nextStepId \notin StepIds(scenario)

\* newTotal / maxPoints clamped to [0,1]
GradeOf(total, maxPoints) ==
  LET clamped == IF total < 0 THEN 0 ELSE IF total > maxPoints THEN maxPoints ELSE total
  IN IF 100 * clamped >= 90 * maxPoints THEN "excellent"
     ELSE IF 100 * clamped >= 75 * maxPoints THEN "good"
     ELSE IF 100 * clamped >= 60 * maxPoints THEN "satisfactory"
     ELSE "needsWork"

NoFeedback == ""

\* the message fetchJSON throws with for a non-ok response
ErrorMessage == "error"

NoFinalResult == [present |-> FALSE, totalPoints |-> 0, maxPoints |-> 0, grade |-> "none"]

\* accumulated is the running total the request carried (0 when it carried none)
ChoiceResult(body, accumulated) ==
  LET scenario == ScenarioDefs[body.scenarioId]
      choice == ChoiceOf(body)
      newTotal == accumulated + choice.points
  IN IF IsTerminal(scenario, choice)
     THEN [points |-> choice.points, nextStepId |-> NoId, isComplete |-> TRUE,
           feedback |-> choice.feedback,
           finalResult |-> [present |-> TRUE, totalPoints |-> newTotal,
                            maxPoints |-> scenario.maxPoints,
                            grade |-> GradeOf(newTotal, scenario.maxPoints)]]
     ELSE [points |-> choice.points, nextStepId |-> choice.nextStepId,
           feedback |-> choice.feedback,
           isComplete |-> FALSE, finalResult |-> NoFinalResult]

ScenarioRecord(finalResult) ==
  [score |-> finalResult.totalPoints, maxScore |-> finalResult.maxPoints,
   grade |-> finalResult.grade]

ApplyScenarioResult(doc, scenarioId, finalResult) ==
  [doc EXCEPT !.scenarios =
     [s \in DOMAIN @ \cup {scenarioId} |->
        IF s = scenarioId THEN ScenarioRecord(finalResult) ELSE @[s]]]


(***************************************************************************)
(* State.                                                                  *)
(***************************************************************************)
VARIABLES
  store,               \* the persisted progress document (server)
  requests,            \* requests sent and not yet handled by the server
  responses,           \* responses sent and not yet received by the client
  progress,            \* ProgressProvider: progress (the default document stands for null)
  loading,             \* ProgressProvider: loading
  confettiActive,      \* ProgressProvider: confettiActive
  badgeNotification,   \* ProgressProvider: id of the badge notified, NoId for null
  completingLessonId,  \* ModulePage: completingLessonId
  submittingAll,       \* QuizEngine: submittingAll
  currentStepId,       \* ScenarioEngine: currentStepId
  selectedChoice,      \* ScenarioEngine: selectedChoice (Absent for null)
  runningPoints,       \* ScenarioEngine: runningPoints
  submitting,          \* ScenarioEngine: submitting
  result,              \* ScenarioEngine: result
  feedback,            \* ScenarioEngine: feedback
  scenarioDone,        \* ScenarioPage: scenarioDone
  hist,                \* per module, the scores of the submissions graded since the last reset
  isNewLog,            \* per module, whether each of those gradings reported a new badge
  notified,            \* per module, the badge notifications shown for its quiz results
  ackedLessons,        \* <<module, lesson>> completions accepted since the last reset
  pathPoints,          \* points of the choices accepted on the current play-through
  completions,         \* scenario completions recorded since the last reset
  bestScenarioScore,   \* highest scenario score recorded since the last reset
  issued,              \* requests issued by the learner so far
  resetsIssued,        \* reset requests issued so far
  progressData,        \* CapstonePage: progressData
  capstonePage,        \* CapstonePage: "away", "loading", "served" or "ready"
  loadedCapstone,      \* the capstone state getProgress() answered with
  selectedSystem,      \* CapstoneProject: selectedSystem ("" for none)
  currentStep,         \* CapstoneProject: currentStep
  stepResponses,       \* CapstoneProject: responses, the steps with an answer
  autosaveTimer,       \* CapstoneProject: the 300 ms autosave timeout is pending
  learnerChanges,      \* actions of the learner on the capstone page so far
  derivedFrom,         \* Dashboard: the <<progress, modules>> of the last render
  earnedBadges,        \* Dashboard: earnedBadges
  safeModuleId,        \* ModulePage: the route's module id (NoId for none)
  lessons,             \* useModuleLessons: lessons
  lessonsLoading,      \* useModuleLessons: loading
  lessonFetches,       \* getLessons() calls not yet resolved
  navigations,         \* route changes so far
  currentIndex,        \* QuizEngine: currentIndex
  quizAnswers,         \* QuizEngine: answers, per question [chosen, value]
  submitted,           \* QuizEngine: submitted, the locked questions
  results              \* QuizEngine: whether results is set

serverVars == <<store>>
netVars == <<requests, responses>>
providerVars == <<progress, loading, confettiActive, badgeNotification>>
pageVars == <<completingLessonId, submittingAll>>
scenarioVars == <<currentStepId, selectedChoice, runningPoints, submitting, result,
                  feedback, scenarioDone>>
quizLogVars == <<hist, isNewLog, notified>>
scenarioLogVars == <<pathPoints, completions, bestScenarioScore>>
countVars == <<issued, resetsIssued>>
capstoneVars == <<progressData, capstonePage, loadedCapstone, selectedSystem, currentStep,
                  stepResponses, autosaveTimer, learnerChanges>>
dashboardVars == <<derivedFrom, earnedBadges>>
lessonHookVars == <<safeModuleId, lessons, lessonsLoading, lessonFetches, navigations>>
quizEngineVars == <<currentIndex, quizAnswers, submitted, results>>
sideVars == <<capstoneVars, dashboardVars, lessonHookVars, quizEngineVars>>
mainVars == <<serverVars, netVars, providerVars, pageVars, scenarioVars, quizLogVars,
              ackedLessons, scenarioLogVars, countVars>>

vars == <<store, requests, responses, progress, loading, confettiActive,
          badgeNotification, completingLessonId, submittingAll, currentStepId,
          selectedChoice, runningPoints, submitting, result, feedback, scenarioDone,
          hist, isNewLog, notified, ackedLessons, pathPoints, completions,
          bestScenarioScore, issued, resetsIssued, progressData, capstonePage,
          loadedCapstone, selectedSystem, currentStep, stepResponses, autosaveTimer,
          learnerChanges, derivedFrom,
          earnedBadges, safeModuleId, lessons, lessonsLoading, lessonFetches, navigations,
          currentIndex, quizAnswers, submitted, results>>

InFlight == Cardinality(requests) + Cardinality(responses)

Init ==
  /\ store = DefaultProgress
  \* ProgressProvider mounts with loading = true and calls refresh()
  /\ requests = {GetProgressRequest}
  /\ responses = {}
  /\ progress = DefaultProgress
  /\ loading = TRUE
  /\ confettiActive = FALSE
  /\ badgeNotification = NoId
  /\ completingLessonId = NoId
  /\ submittingAll = FALSE
  /\ currentStepId = TheScenario.steps[1].id
  /\ selectedChoice = Absent
  /\ runningPoints = 0
  /\ submitting = FALSE
  /\ result = NoFinalResult
  /\ feedback = NoFeedback
  /\ scenarioDone = NoFinalResult
  /\ hist = [m \in ModuleIds |-> << >>]
  /\ isNewLog = [m \in ModuleIds |-> << >>]
  /\ notified = [m \in ModuleIds |-> 0]
  /\ ackedLessons = {}
  /\ pathPoints = 0
  /\ completions = 0
  /\ bestScenarioScore = 0
  /\ issued = 0
  /\ resetsIssued = 0
  /\ progressData = NoCapstone
  /\ capstonePage = "away"
  /\ loadedCapstone = NoCapstone
  /\ selectedSystem = ""
  /\ currentStep = 0
  /\ stepResponses = {}
  /\ autosaveTimer = FALSE
  /\ learnerChanges = 0
  /\ derivedFrom = <<DefaultProgress, ModuleDefs>>
  /\ earnedBadges = deriveEarnedBadgeIds(DefaultProgress, ModuleDefs)
  /\ safeModuleId = NoId
  /\ lessons = << >>
  /\ lessonsLoading = FALSE
  /\ lessonFetches = {}
  /\ navigations = 0
  /\ currentIndex = 0
  /\ quizAnswers = NoSelections
  /\ submitted = {}
  /\ results = FALSE

(***************************************************************************)
(* Server: one action per endpoint, each a single read-modify-write of the *)
(* progress document.                                                      *)
(***************************************************************************)
ServeGetProgress ==
  \E req \in requests :
    /\ req.kind = "getProgress"
    /\ requests' = requests \ {req}
    /\ responses' = responses \cup {Response(req, TRUE, store)}
    /\ UNCHANGED <<store, providerVars, pageVars, scenarioVars, quizLogVars,
                   ackedLessons, scenarioLogVars, countVars>>
    /\ UNCHANGED sideVars

ServeLessonComplete ==
  \E req \in requests :
    /\ req.kind = "lesson"
    /\ requests' = requests \ {req}
    /\ IF LessonRequestValid(req.body)
       THEN LET newDoc == ApplyLessonComplete(store, req.body.moduleId, req.body.lessonId)
            IN /\ store' = newDoc
               /\ responses' = responses \cup {Response(req, TRUE, newDoc)}
               /\ ackedLessons' = ackedLessons \cup {<<req.args.moduleId, req.args.lessonId>>}
       ELSE /\ responses' = responses \cup {Response(req, FALSE, ErrorPayload)}
            /\ UNCHANGED <<store, ackedLessons>>
    /\ UNCHANGED <<providerVars, pageVars, scenarioVars, quizLogVars,
                   scenarioLogVars, countVars>>
    /\ UNCHANGED sideVars

ServeQuizSubmit ==
  \E req \in requests :
    /\ req.kind = "quiz"
    /\ requests' = requests \ {req}
    /\ IF QuizRequestValid(req.body)
       THEN \E cacheBadge \in BOOLEAN :
              LET graded == GradeQuiz(QuizDefs[req.body.quizId], req.body.answers)
                  newDoc == ApplyQuizResult(store, req.body.moduleId, graded, cacheBadge)
                  out == QuizResult(store, req.body.moduleId, graded, newDoc)
                  asked == GradeQuiz(QuizDefs[req.args.quizId], req.args.answers)
              IN /\ store' = newDoc
                 /\ responses' = responses \cup {Response(req, TRUE, out)}
                 /\ hist' = [hist EXCEPT ![req.args.moduleId] = Append(@, asked.score)]
                 /\ isNewLog' = [isNewLog EXCEPT
                                   ![req.args.moduleId] = Append(@, out.badgeEarned.isNew)]
       ELSE /\ responses' = responses \cup {Response(req, FALSE, ErrorPayload)}
            /\ UNCHANGED <<store, hist, isNewLog>>
    /\ UNCHANGED <<providerVars, pageVars, scenarioVars, notified, ackedLessons,
                   scenarioLogVars, countVars>>
    /\ UNCHANGED sideVars

ServeScenarioChoice ==
  \E req \in requests :
    /\ req.kind = "choice"
    /\ requests' = requests \ {req}
    /\ \/ \* accepted; a request that carries no running total counts from 0
          /\ ChoiceRequestValid(req.body)
          /\ LET accumulated == IF req.body.accumulatedPoints = Absent
                                THEN 0 ELSE req.body.accumulatedPoints
                 out == ChoiceResult(req.body, accumulated)
                 first == req.body.stepId = ScenarioDefs[req.body.scenarioId].steps[1].id
             IN /\ responses' = responses \cup {Response(req, TRUE, out)}
                /\ pathPoints' = (IF first THEN 0 ELSE pathPoints) + out.points
                /\ IF out.isComplete
                   THEN /\ store' = ApplyScenarioResult(store, req.body.scenarioId,
                                                        out.finalResult)
                        /\ completions' = completions + 1
                        /\ bestScenarioScore' =
                             IF out.finalResult.totalPoints > bestScenarioScore
                             THEN out.finalResult.totalPoints ELSE bestScenarioScore
                   ELSE UNCHANGED <<store, completions, bestScenarioScore>>
       \/ \* rejected: unknown step or choice, or a malformed body
          /\ ~ChoiceRequestValid(req.body) \/ req.body.accumulatedPoints = Absent
          /\ responses' = responses \cup {Response(req, FALSE, ErrorPayload)}
          /\ UNCHANGED <<store, scenarioLogVars>>
    /\ UNCHANGED <<providerVars, pageVars, scenarioVars, quizLogVars,
                   ackedLessons, countVars>>
    /\ UNCHANGED sideVars

\* reset() of the progress store: a document that keeps the badge cache, and
\* the one that replaces the document with the defaults
ResetDocumentKeepBadges(doc) == [DefaultProgress EXCEPT !.badges = doc.badges]

ResetDocument(doc) == DefaultProgress

ServeReset ==
  \E req \in requests :
    /\ req.kind = "reset"
    /\ requests' = requests \ {req}
    /\ store' = ResetDocument(store)
    /\ responses' = responses \cup {Response(req, TRUE, ResetDocument(store))}
    /\ hist' = [m \in ModuleIds |-> << >>]
    /\ isNewLog' = [m \in ModuleIds |-> << >>]
    /\ ackedLessons' = {}
    /\ completions' = 0
    /\ bestScenarioScore' = 0
    /\ UNCHANGED <<providerVars, pageVars, scenarioVars, notified, pathPoints, countVars>>
    /\ UNCHANGED sideVars


(***************************************************************************)
(* Client: ProgressProvider.                                               *)
(***************************************************************************)
\* refresh(), after getProgress() resolved
RefreshResponse ==
  \E resp \in responses :
    /\ resp.kind = "getProgress"
    /\ responses' = responses \ {resp}
    /\ progress' = IF resp.ok THEN resp.data ELSE progress
    /\ loading' = FALSE
    /\ UNCHANGED <<store, requests, confettiActive, badgeNotification, pageVars,
                   scenarioVars, quizLogVars, ackedLessons, scenarioLogVars, countVars>>
    /\ UNCHANGED sideVars

showBadgeNotification(current, badge) ==
  IF badge.id = NoId THEN current ELSE badge.id

\* Sidebar.handleResetProgress -> reset()
ClickReset ==
  /\ resetsIssued < MaxResets
  /\ issued < MaxRequests
  /\ InFlight < MaxInFlight
  /\ ResetRequest \notin requests
  /\ requests' = requests \cup {ResetRequest}
  /\ resetsIssued' = resetsIssued + 1
  /\ issued' = issued + 1
  /\ UNCHANGED <<store, responses, providerVars, pageVars, scenarioVars, quizLogVars,
                 ackedLessons, scenarioLogVars>>
  /\ UNCHANGED sideVars

ResetResponse ==
  \E resp \in responses :
    /\ resp.kind = "reset"
    /\ responses' = responses \ {resp}
    /\ progress' = IF resp.ok THEN resp.data ELSE progress
    /\ UNCHANGED <<store, requests, loading, confettiActive, badgeNotification,
                   pageVars, scenarioVars, quizLogVars, ackedLessons, scenarioLogVars,
                   countVars>>
    /\ UNCHANGED sideVars

(***************************************************************************)
(* Client: ModulePage.                                                     *)
(***************************************************************************)
onCompleteLesson(moduleId, lessonId) ==
  /\ ~loading
  /\ lessonId \notin getModuleProgress(progress, moduleId).lessonsCompleted
  /\ completingLessonId # lessonId
  /\ issued < MaxRequests
  /\ InFlight < MaxInFlight
  /\ LessonRequest(moduleId, lessonId) \notin requests
  /\ completingLessonId' = lessonId
  /\ requests' = requests \cup {LessonRequest(moduleId, lessonId)}
  /\ issued' = issued + 1
  /\ UNCHANGED <<store, responses, providerVars, submittingAll, scenarioVars,
                 quizLogVars, ackedLessons, scenarioLogVars, resetsIssued>>
  /\ UNCHANGED sideVars

ClickCompleteLesson ==
  \E i \in DOMAIN ModuleDefs :
    \E j \in DOMAIN ModuleDefs[i].lessons :
      onCompleteLesson(ModuleDefs[i].id, getLessonId(ModuleDefs[i].lessons[j]))

\* a provider that marks the lesson before the request resolved
completeLessonOptimistic(current, resp) ==
  IF resp.ok THEN resp.data
  ELSE [current EXCEPT !.modules[resp.args.moduleId].lessonsCompleted =
                         @ \cup {resp.args.lessonId}]

\* ProgressProvider.completeLesson: setProgress(data) runs only when
\* apiMarkComplete resolved; a throw leaves progress as it was
completeLesson(current, resp) ==
  IF resp.ok THEN resp.data ELSE current

\* completeLesson() resolved or threw inside onCompleteLesson
LessonResponse ==
  \E resp \in responses :
    /\ resp.kind = "lesson"
    /\ responses' = responses \ {resp}
    /\ progress' = completeLesson(progress, resp)
    /\ IF resp.ok
       THEN confettiActive' = (confettiActive \/ allModulesCompleted(ModuleDefs, resp.data))
       ELSE UNCHANGED confettiActive
    /\ completingLessonId' = NoId
    /\ UNCHANGED <<store, requests, loading, badgeNotification, submittingAll,
                   scenarioVars, quizLogVars, ackedLessons, scenarioLogVars, countVars>>
    /\ UNCHANGED sideVars

(***************************************************************************)
(* Client: QuizPage and QuizEngine.submitAll.                              *)
(***************************************************************************)
RECURSIVE SortNumbers(_)
\* [...array].sort((x, y) => x - y)
SortNumbers(seq) ==
  IF seq = << >> THEN << >>
  ELSE LET rest == SortNumbers(Tail(seq))
           k == Cardinality({i \in DOMAIN rest : rest[i] <= Head(seq)})
       IN SubSeq(rest, 1, k) \o <<Head(seq)>> \o SubSeq(rest, k + 1, Len(rest))

getLocalCorrectnessUnsorted(question, answer) ==
  CASE question.type = "multiple_choice" -> question.correctIndex = answer
    [] question.type = "true_false" -> answer = question.correctAnswer
    [] question.type = "multi_select" ->
         LET a == answer
             b == question.correctIndices
         IN Len(a) = Len(b) /\ \A index \in DOMAIN a : a[index] = b[index]

getLocalCorrectness(question, answer) ==
  CASE question.type = "multiple_choice" -> question.correctIndex = answer
    [] question.type = "true_false" -> answer = question.correctAnswer
    [] question.type = "multi_select" ->
         LET a == SortNumbers(answer)
             b == SortNumbers(question.correctIndices)
         IN Len(a) = Len(b) /\ \A index \in DOMAIN a : a[index] = b[index]

\* QuizEngine.resolvedCorrectness: the server's verdict when the result has
\* one, the local one otherwise
resolvedCorrectness(question, answer, questionResult) ==
  IF questionResult \in BOOLEAN THEN questionResult
  ELSE getLocalCorrectness(question, answer)

submitAll(module, answers) ==
  /\ ~submittingAll
  /\ module.quizId # NoId
  /\ issued < MaxRequests
  /\ InFlight < MaxInFlight
  /\ submittingAll' = TRUE
  /\ requests' = requests \cup {QuizRequest(module.quizId, answers, module.id)}
  /\ issued' = issued + 1
  /\ UNCHANGED <<store, responses, providerVars, completingLessonId, scenarioVars,
                 quizLogVars, ackedLessons, scenarioLogVars, resetsIssued>>
  /\ UNCHANGED sideVars

SubmitQuiz ==
  \E i \in DOMAIN ModuleDefs : \E answers \in AnswerSheets :
    submitAll(ModuleDefs[i], answers)

ShouldNotify(quizResult) == quizResult.badgeEarned.isNew

\* QuizPage.handleSubmit after submitQuiz() resolved, then submitAll's finally
handleSubmitResolved(resp) ==
  /\ responses' = responses \ {resp}
  /\ IF resp.ok
     THEN LET courseCompleted == allModulesCompleted(ModuleDefs, resp.data.progress)
              shown == IF ShouldNotify(resp.data)
                       THEN showBadgeNotification(badgeNotification, resp.data.badgeEarned)
                       ELSE badgeNotification
          IN /\ progress' = resp.data.progress
             /\ confettiActive' = (confettiActive \/ resp.data.passed \/ courseCompleted)
             /\ badgeNotification' = shown
             /\ notified' =
                  IF ShouldNotify(resp.data) /\ resp.data.badgeEarned.id # NoId
                  THEN [notified EXCEPT ![resp.args.moduleId] = @ + 1]
                  ELSE notified
     ELSE UNCHANGED <<progress, confettiActive, badgeNotification, notified>>
  /\ submittingAll' = FALSE
  /\ UNCHANGED <<store, requests, loading, completingLessonId, scenarioVars, hist,
                 isNewLog, ackedLessons, scenarioLogVars, countVars>>

QuizResponse ==
  \E resp \in responses :
    /\ resp.kind = "quiz"
    /\ handleSubmitResolved(resp)
    /\ UNCHANGED sideVars

(***************************************************************************)
(* Client: AchievementsPage statistics.                                    *)
(***************************************************************************)
\* a row counts as quiz-passed when its quizScore is a number >= 70
RowQuizPassed(moduleProgress) ==
  moduleProgress.quizScore # Absent /\ moduleProgress.quizScore >= 70

\* moduleRows.filter((module) => module.status === 'completed').length
modulesCompleted(modules, progressDoc) ==
  Cardinality({i \in DOMAIN modules :
    getModuleStatus(modules[i], getModuleProgress(progressDoc, getModuleId(modules[i])))
      = "completed"})

\* moduleRows.filter((module) => ... module.quizScore >= 70).length
quizzesPassed(modules, progressDoc) ==
  Cardinality({i \in DOMAIN modules :
    RowQuizPassed(getModuleProgress(progressDoc, getModuleId(modules[i])))})

(***************************************************************************)
(* Client: ScenarioPage and ScenarioEngine.                                *)
(***************************************************************************)
\* GRADE_TITLES[grade] || GRADE_TITLES.needsWork
GRADE_TITLES(grade) ==
  CASE grade = "excellent" -> "Excellent"
    [] grade = "good" -> "Good"
    [] grade = "satisfactory" -> "Satisfactory"
    [] OTHER -> "Needs Work"

\* the colour family of the result card
gradeClass(grade) ==
  CASE grade = "excellent" -> "emerald"
    [] grade = "good" -> "sky"
    [] grade = "satisfactory" -> "amber"
    [] OTHER -> "rose"

CurrentChoices ==
  IF currentStepId \in StepIds(TheScenario)
  THEN StepById(TheScenario, currentStepId).choices
  ELSE << >>

\* the learner clicks a choice (setSelectedChoice(index)) and then Continue
submitChoice(index) ==
  /\ ~result.present
  /\ currentStepId \in StepIds(TheScenario)
  /\ index # Absent
  /\ ~submitting
  /\ issued < MaxRequests
  /\ InFlight < MaxInFlight
  /\ selectedChoice' = index
  /\ submitting' = TRUE
  /\ feedback' = NoFeedback
  /\ requests' = requests \cup
       {ChoiceRequest(TheScenario.id, currentStepId, index, runningPoints)}
  /\ issued' = issued + 1
  /\ UNCHANGED <<store, responses, providerVars, pageVars, currentStepId,
                 runningPoints, result, scenarioDone, quizLogVars,
                 ackedLessons, scenarioLogVars, resetsIssued>>
  /\ UNCHANGED sideVars

SubmitChoice ==
  \E index \in 0 .. (Len(CurrentChoices) - 1) : submitChoice(index)

FinalResultLocalTotal(response, totalPoints) ==
  [present |-> TRUE,
   totalPoints |-> totalPoints,
   maxPoints |-> response.finalResult.maxPoints,
   grade |-> response.finalResult.grade]

\* response.finalResult.totalPoints ?? totalPoints, and so on: the server's values win
FinalResult(response, totalPoints) ==
  [present |-> TRUE,
   totalPoints |-> response.finalResult.totalPoints,
   maxPoints |-> response.finalResult.maxPoints,
   grade |-> response.finalResult.grade]

\* an engine that starts the play-through over when a choice is refused
ChoiceRejectedRestart(resp) ==
  /\ feedback' = ErrorMessage
  /\ runningPoints' = 0
  /\ currentStepId' = TheScenario.steps[1].id
  /\ UNCHANGED <<requests, loading, selectedChoice, result, scenarioDone>>

\* submitChoice's catch: setFeedback(error.message), nothing else
ChoiceRejected(resp) ==
  /\ feedback' = ErrorMessage
  /\ UNCHANGED <<requests, loading, currentStepId, selectedChoice,
                 runningPoints, result, scenarioDone>>

\* submitChoice's try block after submitScenarioChoice() resolved
ChoiceAccepted(resp) ==
  LET gainedPoints == resp.data.points
      totalPoints == runningPoints + gainedPoints
  IN /\ runningPoints' = totalPoints
     /\ feedback' = resp.data.feedback
     /\ IF resp.data.isComplete /\ resp.data.finalResult.present
        THEN \* setResult, then ScenarioPage.onComplete: setScenarioDone, refresh()
             /\ result' = FinalResult(resp.data, totalPoints)
             /\ scenarioDone' = FinalResult(resp.data, totalPoints)
             /\ loading' = TRUE
             /\ requests' = requests \cup {GetProgressRequest}
             /\ UNCHANGED <<currentStepId, selectedChoice>>
        ELSE /\ IF resp.data.nextStepId # NoId
                THEN /\ currentStepId' = resp.data.nextStepId
                     /\ selectedChoice' = Absent
                ELSE UNCHANGED <<currentStepId, selectedChoice>>
             /\ UNCHANGED <<requests, loading, result, scenarioDone>>

\* submitChoice after submitScenarioChoice() resolved or threw
ChoiceResponse ==
  \E resp \in responses :
    /\ resp.kind = "choice"
    /\ responses' = responses \ {resp}
    /\ submitting' = FALSE
    /\ IF ~resp.ok THEN ChoiceRejected(resp) ELSE ChoiceAccepted(resp)
    /\ UNCHANGED <<store, progress, confettiActive, badgeNotification, pageVars,
                   quizLogVars, ackedLessons, scenarioLogVars, countVars>>
    /\ UNCHANGED sideVars

\* a handler that clears the result card and leaves the running points
TryAgainKeepPoints ==
  /\ result.present
  /\ result' = NoFinalResult
  /\ selectedChoice' = Absent
  /\ feedback' = NoFeedback
  /\ currentStepId' = TheScenario.steps[1].id
  /\ UNCHANGED <<store, netVars, providerVars, pageVars, runningPoints, submitting,
                 scenarioDone, quizLogVars, ackedLessons, scenarioLogVars, countVars>>
  /\ UNCHANGED sideVars

\* the Try Again button of the result card
TryAgain ==
  /\ result.present
  /\ result' = NoFinalResult
  /\ runningPoints' = 0
  /\ selectedChoice' = Absent
  /\ feedback' = NoFeedback
  /\ currentStepId' = TheScenario.steps[1].id
  /\ UNCHANGED <<store, netVars, providerVars, pageVars, submitting, scenarioDone,
                 quizLogVars, ackedLessons, scenarioLogVars, countVars>>
  /\ UNCHANGED sideVars

(***************************************************************************)
(* Specification.                                                          *)
(***************************************************************************)
Next ==
  \/ ServeGetProgress
  \/ ServeLessonComplete
  \/ ServeQuizSubmit
  \/ ServeScenarioChoice
  \/ ServeReset
  \/ RefreshResponse
  \/ ClickReset
  \/ ResetResponse
  \/ ClickCompleteLesson
  \/ LessonResponse
  \/ SubmitQuiz
  \/ QuizResponse
  \/ SubmitChoice
  \/ ChoiceResponse
  \/ TryAgain

Spec == Init /\ [][Next]_vars

(***************************************************************************)
(* The same system with the capstone page saving its state: the capstone   *)
(* state is part of the progress document.                                 *)
(***************************************************************************)
\* a save that writes a fresh document around the capstone state
ApplyCapstoneSaveFresh(doc, data) == [DefaultProgress EXCEPT !.capstone = data]

\* the capstone state is stored as it was sent, the rest of the document stays
ApplyCapstoneSave(doc, data) == [doc EXCEPT !.capstone = data]

ServeCapstoneSave ==
  \E req \in requests :
    /\ req.kind = "capstone"
    /\ requests' = requests \ {req}
    /\ store' = ApplyCapstoneSave(store, req.body)
    /\ responses' = responses \cup
         {Response(req, TRUE, ApplyCapstoneSave(store, req.body))}
    /\ UNCHANGED <<providerVars, pageVars, scenarioVars, quizLogVars, ackedLessons,
                   scenarioLogVars, countVars, sideVars>>

\* CapstonePage onSave: saveCapstone(payload) is sent
onSave(payload) ==
  /\ issued < MaxRequests
  /\ InFlight < MaxInFlight
  /\ requests' = requests \cup {CapstoneRequest(payload)}
  /\ issued' = issued + 1
  /\ UNCHANGED <<store, responses, providerVars, pageVars, scenarioVars, quizLogVars,
                 ackedLessons, scenarioLogVars, resetsIssued, sideVars>>

\* CapstonePage onSave after saveCapstone() resolved or threw:
\* setProgressData((updated && updated.capstone) || payload). The new state
\* renders CapstonePage again, the render passes a new onSave function to
\* CapstoneProject, and the autosave effect, which depends on onSave, clears
\* its timeout and sets a new one.
SaveResponse ==
  \E resp \in responses :
    /\ resp.kind = "capstone"
    /\ responses' = responses \ {resp}
    /\ progressData' = IF resp.ok THEN resp.data.capstone ELSE progressData
    /\ autosaveTimer' = (autosaveTimer \/ (resp.ok /\ capstonePage = "ready"))
    /\ UNCHANGED <<store, requests, providerVars, pageVars, scenarioVars, quizLogVars,
                   ackedLessons, scenarioLogVars, countVars, dashboardVars,
                   lessonHookVars, quizEngineVars, capstonePage, loadedCapstone,
                   selectedSystem, currentStep, stepResponses, learnerChanges>>

\* payloads of the capstone wizard: a system chosen on step 1, an answer
\* typed on step 2
SamplePayloads ==
  { [selectedSystem |-> "system-a", currentStep |-> 1, responses |-> {}],
    [selectedSystem |-> "system-a", currentStep |-> 2, responses |-> {"step-1"}] }

SaveSamplePayload == \E payload \in SamplePayloads : onSave(payload)

NextWithCapstoneSaves ==
  \/ Next
  \/ SaveSamplePayload
  \/ ServeCapstoneSave
  \/ SaveResponse

SpecWithCapstoneSaves == Init /\ [][NextWithCapstoneSaves]_vars

(***************************************************************************)
(* The Dashboard's badge count, for progress documents and module lists    *)
(* as the server may supply them.                                          *)
(***************************************************************************)
\* the ids of BADGE_CATALOG, in its order
BADGE_CATALOG ==
  << "risk-framer", "lifecycle-navigator", "trustworthiness-expert",
     "governance-architect", "context-cartographer", "measurement-master",
     "risk-commander", "ai-rmf-master", "perfect-score", "scenario-star",
     "completionist" >>

\* badge ids a stored document may hold: two of the catalog, two that are not
SampleStoredBadgeIds == {"risk-framer", "perfect-score", "legacy-badge", "beta-tester"}

\* badge ids a module definition may carry
SampleModuleBadgeIds == {"risk-framer", "custom-badge"}

SampleQuizScores == {Absent, 100}

RenderDashboard ==
  \E badges \in SUBSET SampleStoredBadgeIds, badgeId \in SampleModuleBadgeIds,
     quizScore \in SampleQuizScores, badgeEarned \in BOOLEAN :
    LET doc == [DefaultProgress EXCEPT
                  !.badges = badges,
                  !.modules["module-1"].quizScore = quizScore,
                  !.modules["module-1"].quizAttempts = IF quizScore = Absent THEN 0 ELSE 1,
                  !.modules["module-1"].quizPassed = quizScore # Absent,
                  !.modules["module-1"].badgeEarned = badgeEarned]
        modules == [ModuleDefs EXCEPT ![1].badge = badgeId]
    IN /\ derivedFrom' = <<doc, modules>>
       /\ earnedBadges' = deriveEarnedBadgeIds(doc, modules)
       /\ UNCHANGED <<mainVars, capstoneVars, lessonHookVars, quizEngineVars>>

DashboardSpec == Init /\ [][RenderDashboard]_vars

(***************************************************************************)
(* ModulePage and useModuleLessons: the route's module id changes and the  *)
(* hook fetches the lessons of the new module.                             *)
(***************************************************************************)
\* GET /modules/:moduleId/lessons
LessonsOfModule(id) == getModuleLessons(ModuleById(id))

\* the effect of useModuleLessons, run because moduleId changed
Navigate ==
  \E id \in ModuleIds \cup {NoId} :
    /\ id # safeModuleId
    /\ navigations < MaxNavigations
    /\ navigations' = navigations + 1
    /\ safeModuleId' = id
    /\ IF id = NoId
       THEN /\ lessons' = << >>
            /\ lessonsLoading' = FALSE
            /\ UNCHANGED lessonFetches
       ELSE /\ lessonsLoading' = TRUE
            /\ lessonFetches' = lessonFetches \cup
                 {[moduleId |-> id, navigation |-> navigations + 1]}
            /\ UNCHANGED lessons
    /\ UNCHANGED <<mainVars, capstoneVars, dashboardVars, quizEngineVars>>

\* getLessons(moduleId) resolved: .then(setLessons), .finally(setLoading(false))
LessonsResolved ==
  \E fetch \in lessonFetches :
    /\ lessonFetches' = lessonFetches \ {fetch}
    /\ lessons' = LessonsOfModule(fetch.moduleId)
    /\ lessonsLoading' = FALSE
    /\ UNCHANGED <<safeModuleId, navigations, mainVars, capstoneVars, dashboardVars,
                   quizEngineVars>>

LessonsNext == Navigate \/ LessonsResolved

LessonsSpec == Init /\ [][LessonsNext]_vars

(***************************************************************************)
(* The capstone wizard: CapstonePage loads the saved capstone state and    *)
(* mounts CapstoneProject, which keeps the selected system, the step and   *)
(* the responses and saves them 300 ms after a change.                     *)
(***************************************************************************)
\* ids of definition.systemOptions
SystemOptions == {"system-a", "system-b"}

\* normalizeSteps: the first four steps of the definition
definitionSteps == <<"step-1", "step-2", "step-3", "step-4">>

\* normalizeStepIndex for a number (anything that is not a number gives 1)
normalizeStepIndex(stepId) ==
  IF stepId < 1 THEN 1
  ELSE IF stepId > 5 THEN 5
  ELSE stepId

\* typeof savedProgress?.selectedSystem === 'string' ? ... : ''
initialSystem(savedProgress) == savedProgress.selectedSystem

\* normalizeStepIndex(savedProgress?.currentStep ?? (initialSystem ? 1 : 0))
initialCurrentStep(savedProgress) ==
  normalizeStepIndex(IF savedProgress.currentStep # Absent
                     THEN savedProgress.currentStep
                     ELSE IF initialSystem(savedProgress) # "" THEN 1 ELSE 0)

\* Math.max(0, Math.min(5, stepNumber))
setCurrentStepValue(stepNumber) ==
  IF stepNumber < 0 THEN 0 ELSE IF stepNumber > 5 THEN 5 ELSE stepNumber

\* the payload of the autosave: selectedSystem || null, currentStep, responses
AutosavePayload ==
  [selectedSystem |-> IF selectedSystem = "" THEN NoId ELSE selectedSystem,
   currentStep |-> currentStep,
   responses |-> stepResponses]

LearnerMayAct == learnerChanges < MaxChanges

\* the learner opens /capstone: getCapstone() and getProgress() are sent
OpenCapstonePage ==
  /\ capstonePage = "away"
  /\ LearnerMayAct
  /\ capstonePage' = "loading"
  /\ learnerChanges' = learnerChanges + 1
  /\ UNCHANGED <<mainVars, progressData, loadedCapstone, selectedSystem, currentStep,
                 stepResponses, autosaveTimer, dashboardVars, lessonHookVars,
                 quizEngineVars>>

\* the server answers getProgress() with the stored document
ServeCapstoneLoad ==
  /\ capstonePage = "loading"
  /\ capstonePage' = "served"
  /\ loadedCapstone' = store.capstone
  /\ UNCHANGED <<mainVars, progressData, selectedSystem, currentStep, stepResponses,
                 autosaveTimer, learnerChanges, dashboardVars, lessonHookVars,
                 quizEngineVars>>

\* Promise.all resolved: setProgressData(progressResult.capstone || {}),
\* isLoading false, CapstoneProject mounts with its initial state and its
\* autosave effect sets the first timeout
CapstoneLoaded ==
  /\ capstonePage = "served"
  /\ capstonePage' = "ready"
  /\ progressData' = loadedCapstone
  /\ selectedSystem' = initialSystem(loadedCapstone)
  /\ currentStep' = initialCurrentStep(loadedCapstone)
  /\ stepResponses' = loadedCapstone.responses
  /\ autosaveTimer' = TRUE
  /\ UNCHANGED <<mainVars, loadedCapstone, learnerChanges, dashboardVars,
                 lessonHookVars, quizEngineVars>>

\* the learner leaves /capstone: CapstoneProject unmounts, the cleanup of the
\* autosave effect clears the timeout
LeaveCapstonePage ==
  /\ capstonePage = "ready"
  /\ LearnerMayAct
  /\ capstonePage' = "away"
  /\ autosaveTimer' = FALSE
  /\ learnerChanges' = learnerChanges + 1
  /\ UNCHANGED <<mainVars, progressData, loadedCapstone, selectedSystem, currentStep,
                 stepResponses, dashboardVars, lessonHookVars, quizEngineVars>>

\* handleSelectSystem(systemId), from a system card of step 0
handleSelectSystem ==
  /\ capstonePage = "ready"
  /\ LearnerMayAct
  /\ currentStep = 0
  /\ \E systemId \in SystemOptions : selectedSystem' = systemId
  /\ currentStep' = 1
  /\ autosaveTimer' = TRUE
  /\ learnerChanges' = learnerChanges + 1
  /\ UNCHANGED <<mainVars, progressData, capstonePage, loadedCapstone, stepResponses,
                 dashboardVars, lessonHookVars, quizEngineVars>>

\* updateResponse(fieldId, value), from a field of the step shown
updateResponse ==
  /\ capstonePage = "ready"
  /\ LearnerMayAct
  /\ currentStep \in 1..Len(definitionSteps)
  /\ stepResponses' = stepResponses \cup {definitionSteps[currentStep]}
  /\ autosaveTimer' = TRUE
  /\ learnerChanges' = learnerChanges + 1
  /\ UNCHANGED <<mainVars, progressData, capstonePage, loadedCapstone, selectedSystem,
                 currentStep, dashboardVars, lessonHookVars, quizEngineVars>>

\* handleNext, from the button under the fields of steps 1..4
handleNext ==
  /\ capstonePage = "ready"
  /\ LearnerMayAct
  /\ currentStep >= 1
  /\ currentStep <= Len(definitionSteps)
  /\ currentStep' = IF currentStep = Len(definitionSteps)
                    THEN 5
                    ELSE setCurrentStepValue(currentStep + 1)
  /\ autosaveTimer' = TRUE
  /\ learnerChanges' = learnerChanges + 1
  /\ UNCHANGED <<mainVars, progressData, capstonePage, loadedCapstone, selectedSystem,
                 stepResponses, dashboardVars, lessonHookVars, quizEngineVars>>

\* handleBack, from the button under the fields of steps 1..4
handleBack ==
  /\ capstonePage = "ready"
  /\ LearnerMayAct
  /\ currentStep \in 1..Len(definitionSteps)
  /\ currentStep' = IF currentStep <= 1 THEN 0
                    ELSE IF currentStep = 5 THEN Len(definitionSteps)
                    ELSE setCurrentStepValue(currentStep - 1)
  /\ autosaveTimer' = TRUE
  /\ learnerChanges' = learnerChanges + 1
  /\ UNCHANGED <<mainVars, progressData, capstonePage, loadedCapstone, selectedSystem,
                 stepResponses, dashboardVars, lessonHookVars, quizEngineVars>>

\* handleStartOver, from the summary of step 5: the state is cleared and
\* onSave is called at once with the empty state
handleStartOver ==
  /\ capstonePage = "ready"
  /\ LearnerMayAct
  /\ currentStep = 5
  /\ InFlight < MaxInFlight
  /\ selectedSystem' = ""
  /\ currentStep' = 0
  /\ stepResponses' = {}
  /\ autosaveTimer' = TRUE
  /\ learnerChanges' = learnerChanges + 1
  /\ requests' = requests \cup
       {CapstoneRequest([selectedSystem |-> NoId, currentStep |-> 0, responses |-> {}])}
  /\ UNCHANGED <<store, responses, providerVars, pageVars, scenarioVars, quizLogVars,
                 ackedLessons, scenarioLogVars, countVars, progressData, capstonePage,
                 loadedCapstone, dashboardVars, lessonHookVars, quizEngineVars>>

\* the autosave timeout fires: onSave({selectedSystem, currentStep, responses})
AutosaveFires ==
  /\ capstonePage = "ready"
  /\ autosaveTimer
  /\ InFlight < MaxInFlight
  /\ autosaveTimer' = FALSE
  /\ requests' = requests \cup {CapstoneRequest(AutosavePayload)}
  /\ UNCHANGED <<store, responses, providerVars, pageVars, scenarioVars, quizLogVars,
                 ackedLessons, scenarioLogVars, countVars, progressData, capstonePage,
                 loadedCapstone, selectedSystem, currentStep, stepResponses,
                 learnerChanges, dashboardVars, lessonHookVars, quizEngineVars>>

WizardNext ==
  \/ OpenCapstonePage
  \/ ServeCapstoneLoad
  \/ CapstoneLoaded
  \/ LeaveCapstonePage
  \/ handleSelectSystem
  \/ updateResponse
  \/ handleNext
  \/ handleBack
  \/ handleStartOver
  \/ AutosaveFires
  \/ ServeCapstoneSave
  \/ SaveResponse

WizardSpec == Init /\ [][WizardNext]_vars

\* timeouts fire, the server answers and the client handles every answer
WizardFairness ==
  /\ WF_vars(ServeCapstoneLoad)
  /\ WF_vars(CapstoneLoaded)
  /\ WF_vars(AutosaveFires)
  /\ WF_vars(ServeCapstoneSave)
  /\ WF_vars(SaveResponse)

FairWizardSpec == WizardSpec /\ WizardFairness

(***************************************************************************)
(* QuizEngine: the learner answers the questions of a quiz one by one,     *)
(* asks for the results and may retry.                                     *)
(***************************************************************************)
QuizPageModule == ModuleDefs[1]

normalizedQuestions == QuizDefs[QuizPageModule.quizId].questions

totalQuestions == Len(normalizedQuestions)

currentQuestion == normalizedQuestions[currentIndex + 1]

isSubmitted == (currentIndex + 1) \in submitted

\* a check that takes every answer for a selection
hasSelectionAlways(question, answer) == TRUE

\* hasSelection: a non-empty array, a boolean, or a number >= 0
hasSelection(question, answer) ==
  /\ answer.chosen
  /\ CASE question.type = "multiple_choice" -> answer.value >= 0
       [] question.type = "true_false" -> TRUE
       [] question.type = "multi_select" -> Len(answer.value) > 0

canSubmit == hasSelection(currentQuestion, quizAnswers[currentIndex + 1])

\* the options the learner clicks on
ChoiceOptions == {0, 1}

ToggleOptions == {0, 2}

\* setAnswer(value) from a radio button or a True/False button
setAnswer ==
  /\ ~results
  /\ ~isSubmitted
  /\ currentQuestion.type \in {"multiple_choice", "true_false"}
  /\ \E value \in (IF currentQuestion.type = "true_false" THEN BOOLEAN ELSE ChoiceOptions) :
       quizAnswers' = [quizAnswers EXCEPT ![currentIndex + 1] = [chosen |-> TRUE, value |-> value]]
  /\ UNCHANGED <<currentIndex, submitted, results, mainVars, capstoneVars,
                 dashboardVars, lessonHookVars>>

ToggleOption ==
  /\ ~results
  /\ ~isSubmitted
  /\ currentQuestion.type = "multi_select"
  /\ \E index \in ToggleOptions :
       quizAnswers' = [quizAnswers EXCEPT ![currentIndex + 1] =
                     [chosen |-> TRUE, value |-> handleMultiSelectToggle(@.value, index)]]
  /\ UNCHANGED <<currentIndex, submitted, results, mainVars, capstoneVars,
                 dashboardVars, lessonHookVars>>

submitCurrentQuestion ==
  /\ ~results
  /\ canSubmit
  /\ ~isSubmitted
  /\ submitted' = submitted \cup {currentIndex + 1}
  /\ UNCHANGED <<currentIndex, quizAnswers, results, mainVars, capstoneVars,
                 dashboardVars, lessonHookVars>>

\* the Next Question button is shown on a locked question that is not the last
nextQuestion ==
  /\ ~results
  /\ isSubmitted
  /\ currentIndex < totalQuestions - 1
  /\ currentIndex' = currentIndex + 1
  /\ UNCHANGED <<quizAnswers, submitted, results, mainVars, capstoneVars,
                 dashboardVars, lessonHookVars>>

\* the answers object handed to onSubmit
AnswersSent == [i \in DOMAIN quizAnswers |-> quizAnswers[i].value]

\* the See Results button is shown on the last question once it is locked
SeeResults ==
  /\ ~results
  /\ isSubmitted
  /\ currentIndex = totalQuestions - 1
  /\ submitAll(QuizPageModule, AnswersSent)

\* submitAll after onSubmit(answers) resolved or threw: setResults(grading)
GradingResolved ==
  \E resp \in responses :
    /\ resp.kind = "quiz"
    /\ handleSubmitResolved(resp)
    /\ results' = (results \/ resp.ok)
    /\ UNCHANGED <<currentIndex, quizAnswers, submitted, capstoneVars, dashboardVars,
                   lessonHookVars>>

\* Retry on the results card
resetQuiz ==
  /\ results
  /\ currentIndex' = 0
  /\ quizAnswers' = NoSelections
  /\ submitted' = {}
  /\ results' = FALSE
  /\ UNCHANGED <<mainVars, capstoneVars, dashboardVars, lessonHookVars>>

QuizEngineNext ==
  \/ setAnswer
  \/ ToggleOption
  \/ submitCurrentQuestion
  \/ nextQuestion
  \/ SeeResults
  \/ ServeGetProgress
  \/ RefreshResponse
  \/ ServeQuizSubmit
  \/ GradingResolved
  \/ resetQuiz

QuizEngineSpec == Init /\ [][QuizEngineNext]_vars

(***************************************************************************)
(* The same system with requests that fail: the progress store is          *)
(* unavailable for a request, or the page holds course content the server  *)
(* does not have (a lesson, a step or a choice that is not in its content).*)
(***************************************************************************)
StoreBackedKinds == {"lesson", "quiz", "reset", "choice"}

\* store I/O failure: the request fails as a whole, nothing is written
FailStore ==
  \E req \in requests :
    /\ req.kind \in StoreBackedKinds
    /\ requests' = requests \ {req}
    /\ responses' = responses \cup {Response(req, FALSE, ErrorPayload)}
    /\ UNCHANGED <<store, providerVars, pageVars, scenarioVars, quizLogVars,
                   ackedLessons, scenarioLogVars, countVars>>
    /\ UNCHANGED sideVars

\* lesson ids a page may show that the module does not have
ForeignLessonIds == {"l1", "l9"}

\* ModulePage.onCompleteLesson for a lesson that is not one of the module's
ClickForeignLesson ==
  \E i \in DOMAIN ModuleDefs : \E lessonId \in ForeignLessonIds :
    /\ \A j \in DOMAIN ModuleDefs[i].lessons :
         getLessonId(ModuleDefs[i].lessons[j]) # lessonId
    /\ onCompleteLesson(ModuleDefs[i].id, lessonId)

UnknownStepId == "s9"

\* ScenarioEngine.submitChoice from a page whose copy of the scenario has a
\* choice past the server's list for the step, or names the step by an id
\* the server does not have
SubmitUnknownChoice ==
  /\ ~result.present
  /\ currentStepId \in StepIds(TheScenario)
  /\ ~submitting
  /\ issued < MaxRequests
  /\ InFlight < MaxInFlight
  /\ \E target \in {<<currentStepId, Len(CurrentChoices)>>, <<UnknownStepId, 0>>} :
       /\ selectedChoice' = target[2]
       /\ requests' = requests \cup
            {ChoiceRequest(TheScenario.id, target[1], target[2], runningPoints)}
  /\ submitting' = TRUE
  /\ feedback' = NoFeedback
  /\ issued' = issued + 1
  /\ UNCHANGED <<store, responses, providerVars, pageVars, currentStepId,
                 runningPoints, result, scenarioDone, quizLogVars,
                 ackedLessons, scenarioLogVars, resetsIssued>>
  /\ UNCHANGED sideVars

NextWithFailures ==
  \/ Next
  \/ FailStore
  \/ ClickForeignLesson
  \/ SubmitUnknownChoice

SpecWithFailures == Init /\ [][NextWithFailures]_vars

(***************************************************************************)
(* Module completion (claims C1, C2).                                      *)
(***************************************************************************)
ResetServed == ResetRequest \in requests /\ ResetRequest \notin requests'

\* C1: once isModuleCompleted is true for a module it stays true in every
\* progress document the store reaches afterwards by lesson completions and
\* quiz submissions; only a reset may make it false again.
C1_CompletionNeverRevoked ==
  [][ \A i \in DOMAIN ModuleDefs :
        LET module == ModuleDefs[i]
        IN (/\ ~ResetServed
            /\ isModuleCompleted(module, getModuleProgress(store, getModuleId(module))))
           => isModuleCompleted(module, getModuleProgress(store, getModuleId(module)))'
    ]_vars

\* module definitions the rule is checked on besides the course's own: fewer
\* or more lessons, and a passing score of the module's own
SampleModules ==
  { [id |-> "m", lessons |-> ls, quizId |-> "quiz-1", scenarioId |-> NoId,
     badge |-> NoId, passingScore |-> ps] :
      ls \in {<< >>, <<"l1">>, <<"l2", "l1">>}, ps \in {Absent, 80} }

\* the rule of C2, written from its text
CompletionRule(module, moduleProgress) ==
  LET lessonIds == {module.lessons[i] : i \in DOMAIN module.lessons}
      effective == IF module.passingScore = Absent THEN 70 ELSE module.passingScore
  IN /\ Cardinality(lessonIds \cap moduleProgress.lessonsCompleted) >= Len(module.lessons)
     /\ \/ moduleProgress.quizPassed
        \/ moduleProgress.quizScore # Absent /\ moduleProgress.quizScore >= effective

\* C2: isModuleCompleted holds exactly when every lesson of the module is in
\* lessonsCompleted (trivially for a module without lessons) and the quiz
\* counts as passed (quizPassed, or a quizScore of at least the effective
\* passing score, 70 by default); lessons alone or a passed quiz alone never
\* yield completion.
C2_CompletionRule ==
  /\ \A i \in DOMAIN ModuleDefs : \A doc \in {store, progress} :
       isModuleCompleted(ModuleDefs[i], getModuleProgress(doc, getModuleId(ModuleDefs[i])))
         = CompletionRule(ModuleDefs[i], doc.modules[ModuleDefs[i].id])
  /\ \A module \in SampleModules : \A id \in ModuleIds :
       isModuleCompleted(module, store.modules[id]) = CompletionRule(module, store.modules[id])

\* C2 witness: a module completed by its quiz while another has a passed quiz
\* and lessons missing
C2_Witness ==
  /\ isModuleCompleted(ModuleDefs[2], store.modules["module-2"])
  /\ store.modules["module-1"].quizPassed
  /\ store.modules["module-1"].lessonsCompleted = {}
  /\ ~isModuleCompleted(ModuleDefs[1], store.modules["module-1"])

(***************************************************************************)
(* Badge derivation (claim C3).                                            *)
(***************************************************************************)
\* the union (a)-(e) of C3, written from its text
BadgeUnion(doc, modules) ==
  doc.badges
    \cup { modules[i].badge : i \in
             { j \in DOMAIN modules :
                 /\ modules[j].badge # NoId
                 /\ isModuleCompleted(modules[j], doc.modules[modules[j].id]) } }
    \cup (IF \E m \in DOMAIN doc.modules : doc.modules[m].quizScore = 100
          THEN {"perfect-score"} ELSE {})
    \cup (IF \E s \in DOMAIN doc.scenarios :
               10 * doc.scenarios[s].score >= 9 * doc.scenarios[s].maxScore
          THEN {"scenario-star"} ELSE {})
    \cup (IF \A i \in DOMAIN modules :
               isModuleCompleted(modules[i], doc.modules[modules[i].id])
          THEN {"completionist"} ELSE {})

\* C3: deriveEarnedBadgeIds returns exactly the ids in Progress.badges, the
\* badge of every completed module, perfect-score iff some quizScore is 100,
\* scenario-star iff some scenario has score/maxScore >= 0.9 and completionist
\* iff every module is completed, and no other id: a stored badgeEarned flag
\* alone adds nothing.
C3_BadgesAreTheUnion ==
  \A doc \in {store, progress} :
    deriveEarnedBadgeIds(doc, ModuleDefs) = BadgeUnion(doc, ModuleDefs)

(***************************************************************************)
(* Quiz grading side effects (claims C4, C5).                              *)
(***************************************************************************)
PassingScoreOf(moduleId) == QuizPassingScore(QuizDefs[ModuleById(moduleId).quizId])

SomePassed(moduleId) ==
  \E i \in DOMAIN hist[moduleId] : hist[moduleId][i] >= PassingScoreOf(moduleId)

\* C4: after n >= 1 quiz submissions for a module with no reset in between,
\* quizAttempts = n, quizScore is the score of the latest submission and
\* quizPassed holds iff at least one of the n submissions passed.
C4_AttemptsLatestScoreStickyPass ==
  \A m \in ModuleIds :
    LET n == Len(hist[m])
    IN n >= 1 =>
         /\ store.modules[m].quizAttempts = n
         /\ store.modules[m].quizScore = hist[m][n]
         /\ store.modules[m].quizPassed <=> SomePassed(m)

\* C4 witness: a passing submission followed by a failing one
C4_Witness ==
  /\ hist["module-1"] = <<75, 50>>
  /\ store.modules["module-1"].quizAttempts = 2
  /\ store.modules["module-1"].quizScore = 50
  /\ store.modules["module-1"].quizPassed

\* C5 as stated: in every reachable progress document, quizPassed implies
\* quizScore >= the passing score of the module's quiz.
C5_PassedImpliesScoreAtLeastPassing ==
  \A m \in ModuleIds :
    store.modules[m].quizPassed => store.modules[m].quizScore >= PassingScoreOf(m)

\* C5 amended: quizPassed implies that some submission graded for the module
\* since the last reset scored at least the passing score of its quiz; the
\* stored quizScore is the latest score and may be lower.
C5_PassedImpliesSomeSubmissionPassed ==
  \A m \in ModuleIds : store.modules[m].quizPassed => SomePassed(m)

\* C5 witness: quizPassed with a stored quizScore below the passing score
C5_Witness ==
  \E m \in ModuleIds :
    /\ store.modules[m].quizPassed
    /\ store.modules[m].quizScore < PassingScoreOf(m)

(***************************************************************************)
(* Scenario play-throughs (claims C6, C7, C9).                             *)
(***************************************************************************)
FirstStepId == TheScenario.steps[1].id

\* C6: every scenario-choice request the client sends carries
\* accumulatedPoints equal to the running total of the play-through: the sum
\* of the points returned for the earlier choices, 0 on the first step.
C6_RequestCarriesRunningTotal ==
  \A req \in requests :
    req.kind = "choice" =>
      req.body.accumulatedPoints = (IF req.body.stepId = FirstStepId THEN 0 ELSE pathPoints)

CompletionResponses ==
  {resp \in responses : resp.kind = "choice" /\ resp.ok /\ resp.data.isComplete}

\* C7: the finalResult.totalPoints emitted on the terminal choice of a
\* play-through, and the score persisted for the scenario, equal the sum of
\* the points of all choices taken from the initial step to the terminal one.
C7_FinalTotalIsPathSum ==
  \A resp \in CompletionResponses :
    /\ resp.data.finalResult.totalPoints = pathPoints
    /\ resp.args.scenarioId \in DOMAIN store.scenarios
         => store.scenarios[resp.args.scenarioId].score = pathPoints

NonTerminalChoiceAccepted ==
  \E req \in requests :
    /\ req.kind = "choice"
    /\ req \notin requests'
    /\ \E resp \in responses' \ responses : resp.ok /\ ~resp.data.isComplete

LatestCompletionStored ==
  LET sid == TheScenario.id
  IN /\ completions = 0 => sid \notin DOMAIN store.scenarios
     /\ completions > 0 => sid \in DOMAIN store.scenarios
     /\ (completions > 0 /\ CompletionResponses = {})
          => store.scenarios[sid] = ScenarioRecord(scenarioDone)

\* C9: Progress.scenarios[scenarioId] is the outcome of the play-through
\* completed last since the progress document was last reset, and absent when
\* none completed; accepting a non-terminal choice leaves the persisted
\* progress unchanged; each completion overwrites the earlier record, also a
\* higher one.  Once the client has received the completion, the outcome it
\* holds (scenarioDone) is the stored record.
C9_StoreHoldsLatestCompletion ==
  /\ []LatestCompletionStored
  /\ [][NonTerminalChoiceAccepted => store' = store]_vars

\* C9 witness: a second completion has replaced a higher score
C9_Witness ==
  /\ completions = 2
  /\ CompletionResponses = {}
  /\ store.scenarios[TheScenario.id] = ScenarioRecord(scenarioDone)
  /\ store.scenarios[TheScenario.id].score < bestScenarioScore

(***************************************************************************)
(* Badge notification (claim C8).                                          *)
(***************************************************************************)
FirstPass(moduleId, i) ==
  /\ hist[moduleId][i] >= PassingScoreOf(moduleId)
  /\ \A j \in 1 .. (i - 1) : hist[moduleId][j] < PassingScoreOf(moduleId)

\* C8: over the quiz submissions graded for a module that defines a badge,
\* with no reset, the result reports the badge as new on exactly the first
\* submission that passes and on no other; the client shows the badge
\* notification at most once per module.
C8_BadgeNewOnFirstPassOnly ==
  \A m \in ModuleIds :
    /\ Len(isNewLog[m]) = Len(hist[m])
    /\ \A i \in DOMAIN isNewLog[m] :
         isNewLog[m][i] <=> (ModuleById(m).badge # NoId /\ FirstPass(m, i))
    /\ resetsIssued = 0 => notified[m] <= 1

\* C8 witness: two passing submissions, both results received, one notification
C8_Witness ==
  /\ hist["module-1"] = <<100, 75>>
  /\ isNewLog["module-1"] = <<TRUE, FALSE>>
  /\ \A resp \in responses : resp.kind # "quiz"
  /\ notified["module-1"] = 1
  /\ badgeNotification = "risk-framer"

(***************************************************************************)
(* Concurrent updates (claim C10).                                         *)
(***************************************************************************)
\* C10: mutating requests in flight at the same time are applied as
\* indivisible read-modify-write steps: whatever the order in which they are
\* served, the stored progress holds every accepted update (no lost update).
C10_NoLostUpdate ==
  /\ \A pair \in ackedLessons : pair[2] \in store.modules[pair[1]].lessonsCompleted
  /\ \A m \in ModuleIds : store.modules[m].quizAttempts = Len(hist[m])

\* C10 witness: two lesson completions were in flight together, both are
\* answered and both are stored
C10_Witness ==
  /\ Cardinality({resp \in responses : resp.kind = "lesson" /\ resp.ok}) = 2
  /\ store.modules["module-1"].lessonsCompleted = {"l1", "l2"}

(***************************************************************************)
(* Scenario grade (claim C11).                                             *)
(***************************************************************************)
GradeBuckets == {"excellent", "good", "satisfactory", "needsWork"}

\* the buckets of C11, written from its text: percent is 100 * the ratio
\* totalPoints / maxPoints clamped to [0,1], compared without rounding
GradeBucket(totalPoints, maxPoints) ==
  LET ratioTimesMax == IF totalPoints <= 0 THEN 0
                       ELSE IF totalPoints >= maxPoints THEN maxPoints
                       ELSE totalPoints
      atLeast(percent) == 100 * ratioTimesMax >= percent * maxPoints
  IN CHOOSE g \in GradeBuckets :
       /\ g = "excellent" <=> atLeast(90)
       /\ g = "good" <=> (atLeast(75) /\ ~atLeast(90))
       /\ g = "satisfactory" <=> (atLeast(60) /\ ~atLeast(75))

SampleTotals == (0 - 3) .. 23

\* the grading function on sample totals; it does not depend on the state and
\* is evaluated in the states where nothing has been issued yet
GradeSamplesAgree ==
  /\ \A total \in SampleTotals : \A maxPoints \in {10, 20} :
       /\ GradeOf(total, maxPoints) \in GradeBuckets
       /\ GradeOf(total, maxPoints) = GradeBucket(total, maxPoints)
  /\ GradeOf(18, 20) = "excellent"
  /\ GradeOf(14, 20) = "satisfactory"
  /\ GradeOf(0 - 1, 20) = "needsWork"

\* C11: the grade of a completed scenario is the bucket of totalPoints /
\* maxPoints clamped to [0,1] (excellent from 0.90, good from 0.75,
\* satisfactory from 0.60, needsWork below; 18/20 excellent, 14/20
\* satisfactory, a negative total needsWork), every final grade is one of the
\* four buckets, and the client shows and derives from that grade.
C11_GradeIsTheBucket ==
  /\ issued = 0 => GradeSamplesAgree
  /\ \A resp \in CompletionResponses :
       resp.data.finalResult.grade
         = GradeBucket(resp.data.finalResult.totalPoints, resp.data.finalResult.maxPoints)
  /\ result.present =>
       /\ result.grade = GradeBucket(result.totalPoints, result.maxPoints)
       /\ GRADE_TITLES(result.grade) = "Excellent" <=> result.grade = "excellent"
       /\ gradeClass(result.grade) = "rose" <=> result.grade = "needsWork"
  /\ \A doc \in {store, progress} : \A s \in DOMAIN doc.scenarios :
       /\ doc.scenarios[s].grade = GradeBucket(doc.scenarios[s].score, doc.scenarios[s].maxScore)
       /\ hasExcellentScenario(doc) <=> doc.scenarios[s].grade = "excellent"

\* C11 witness: a play-through graded satisfactory (6 of 10) is shown and stored
C11_Witness ==
  /\ result.present
  /\ result.totalPoints = 6
  /\ result.grade = "satisfactory"
  /\ TheScenario.id \in DOMAIN store.scenarios
  /\ store.scenarios[TheScenario.id].grade = "satisfactory"
  /\ ~hasExcellentScenario(store)

(***************************************************************************)
(* Quiz grading (claims C12, C13).                                         *)
(***************************************************************************)
AsSet(seq) == {seq[i] : i \in DOMAIN seq}

\* per-question correctness, written from the text of C13
CorrectByRule(question, answer) ==
  \/ question.type = "multiple_choice" /\ answer = question.correctIndex
  \/ question.type = "true_false" /\ answer = question.correctAnswer
  \/ question.type = "multi_select" /\ AsSet(answer) = AsSet(question.correctIndices)

\* s is an integer nearest to num / den
IsNearest(s, num, den) ==
  LET diff == s * den - num
  IN 2 * (IF diff < 0 THEN 0 - diff ELSE diff) <= den

\* the grading of C12, written from its text
GradedByRule(quiz, answers, graded) ==
  LET n == Len(quiz.questions)
      k == Cardinality({i \in DOMAIN quiz.questions :
                          CorrectByRule(quiz.questions[i], answers[i])})
      passing == IF quiz.passingScore = Absent THEN 70 ELSE quiz.passingScore
  IN /\ graded.correctCount = k
     /\ graded.totalQuestions = n
     /\ IsNearest(graded.score, 100 * k, n)
     /\ graded.passed <=> graded.score >= passing

\* quizzes of n multiple_choice questions answered with k correct answers
SampleQuiz(n, passingScore) ==
  [id |-> "sample", passingScore |-> passingScore,
   questions |-> [i \in 1 .. n |-> [type |-> "multiple_choice", correctIndex |-> 0]]]

SampleAnswers(n, k) == [i \in 1 .. n |-> IF i <= k THEN 0 ELSE 1]

GradingSamplesAgree ==
  \A n \in {1, 2, 3, 4, 6, 7} : \A k \in 0 .. n : \A passingScore \in {Absent, 60, 80} :
    GradedByRule(SampleQuiz(n, passingScore), SampleAnswers(n, k),
                 GradeQuiz(SampleQuiz(n, passingScore), SampleAnswers(n, k)))

QuizResults == {resp \in responses : resp.kind = "quiz" /\ resp.ok}

\* C12: grading a quiz of n > 0 questions with k correct answers yields
\* correctCount = k, totalQuestions = n, score = round(100 * k / n) and passed
\* iff score >= the quiz's passingScore, 70 when the quiz defines none (3 of
\* 4 correct with passing score 70: score 75, passed).
C12_GradedByTheFormula ==
  /\ issued = 0 => GradingSamplesAgree
  /\ \A resp \in QuizResults :
       GradedByRule(QuizDefs[resp.args.quizId], resp.args.answers, resp.data)

\* C12 witness: 3 of 4 correct on the quiz without a passing score of its own
C12_Witness ==
  \E resp \in QuizResults :
    /\ QuizDefs[resp.args.quizId].passingScore = Absent
    /\ resp.data.correctCount = 3
    /\ resp.data.totalQuestions = 4
    /\ resp.data.score = 75
    /\ resp.data.passed

ClickSequences == UNION {[1 .. n -> 0 .. 2] : n \in 0 .. 3}

MultiSelectQuestion(correctIndices) ==
  [type |-> "multi_select", correctIndices |-> correctIndices]

\* options clicked an odd number of times
Selected(clicks) ==
  {x \in 0 .. 2 : Cardinality({i \in DOMAIN clicks : clicks[i] = x}) % 2 = 1}

CorrectnessSamplesAgree ==
  /\ \A clicks \in ClickSequences : \A correctIndices \in {<<0, 2>>, <<2, 0>>, <<1>>} :
       LET answer == Toggled(clicks)
           question == MultiSelectQuestion(correctIndices)
       IN /\ AsSet(answer) = Selected(clicks)
          /\ Len(answer) = Cardinality(Selected(clicks))
          /\ getLocalCorrectness(question, answer) = CorrectByRule(question, answer)
          /\ IsCorrect(question, answer) = CorrectByRule(question, answer)
          \* the order of the clicks and repeated indices make no difference
          /\ IsCorrect(question, clicks) = (AsSet(clicks) = AsSet(correctIndices))
  /\ getLocalCorrectness(MultiSelectQuestion(<<0, 2>>), Toggled(<<2, 0>>))
  /\ \A answers \in AnswerSheets :
       answers[4] \in {Toggled(<<2, 0>>), Toggled(<<0>>), Toggled(<<0, 2, 2>>)}
  /\ \A answer, correct \in 0 .. 2 :
       getLocalCorrectness([type |-> "multiple_choice", correctIndex |-> correct], answer)
         = (answer = correct)
  /\ \A answer, correct \in BOOLEAN :
       getLocalCorrectness([type |-> "true_false", correctAnswer |-> correct], answer)
         = (answer = correct)

ModuleStatuses == {"completed", "in_progress", "not_started"}

\* the status of C14, written from its text
StatusByRule(module, moduleProgress) ==
  LET someLessonCompleted ==
        \E i \in DOMAIN module.lessons : module.lessons[i] \in moduleProgress.lessonsCompleted
      active == \/ someLessonCompleted
                \/ moduleProgress.quizAttempts > 0
                \/ moduleProgress.quizScore # Absent
  IN IF isModuleCompleted(module, moduleProgress) THEN "completed"
     ELSE IF active THEN "in_progress"
     ELSE "not_started"

\* C14: getModuleStatus returns 'completed' iff isModuleCompleted holds,
\* otherwise 'in_progress' iff a lesson of the module is completed, quizAttempts
\* > 0 or a quizScore is recorded, otherwise 'not_started': exactly one of
\* the three for every input.
C14_StatusByRule ==
  \A id \in ModuleIds : \A module \in SampleModules \cup {ModuleById(id)} :
    /\ getModuleStatus(module, store.modules[id]) \in ModuleStatuses
    /\ getModuleStatus(module, store.modules[id]) = StatusByRule(module, store.modules[id])

\* C14 witness: one module is in progress through a failed quiz attempt alone,
\* the other is completed
C14_Witness ==
  /\ store.modules["module-1"].lessonsCompleted = {}
  /\ store.modules["module-1"].quizAttempts = 1
  /\ getModuleStatus(ModuleDefs[1], store.modules["module-1"]) = "in_progress"
  /\ getModuleStatus(ModuleDefs[2], store.modules["module-2"]) = "completed"

\* module lists of 0 to 3 modules
SampleModuleLists ==
  { << >>, <<ModuleDefs[1]>>, <<ModuleDefs[2]>>, ModuleDefs,
    <<ModuleDefs[2], ModuleDefs[1], ModuleDefs[2]>> }

\* C15: overallProgressPercent is round(100 * completedModuleCount /
\* totalModules), counting the modules for which isModuleCompleted holds; it
\* is 0 for an empty module list and always lies in 0..100.
C15_OverallPercent ==
  \A modules \in SampleModuleLists :
    LET completed == Cardinality({i \in DOMAIN modules :
                       isModuleCompleted(modules[i], store.modules[modules[i].id])})
        percent == overallProgressPercent(modules, store)
    IN /\ countCompletedModules(modules, store) = completed
       /\ percent \in 0 .. 100
       /\ Len(modules) = 0 => percent = 0
       /\ Len(modules) > 0 => IsNearest(percent, 100 * completed, Len(modules))

\* C15 witness: one of the two modules is completed, two of three in the
\* longer list
C15_Witness ==
  /\ overallProgressPercent(ModuleDefs, store) = 50
  /\ overallProgressPercent(<<ModuleDefs[2], ModuleDefs[1], ModuleDefs[2]>>, store) = 67
  /\ overallProgressPercent(<< >>, store) = 0

(***************************************************************************)
(* Reset (claim C16).                                                      *)
(***************************************************************************)
\* what the claim states of a document just reset
PostReset(doc) ==
  /\ doc = DefaultProgress
  /\ deriveEarnedBadgeIds(doc, ModuleDefs) = {}
  /\ \A i \in DOMAIN ModuleDefs :
       getModuleStatus(ModuleDefs[i], getModuleProgress(doc, ModuleDefs[i].id))
         = "not_started"
  /\ overallProgressPercent(ModuleDefs, doc) = 0

\* the client's reset() resolved: an ok reset response leaves the network
ResetReceived ==
  \E resp \in responses : resp.kind = "reset" /\ resp.ok /\ resp \notin responses'

\* C16: the step that serves a reset leaves the stored Progress document equal
\* to the defaults, with no badge derivable, every module 'not_started' and
\* the overall progress 0; the step in which the client's reset() resolves
\* leaves the client's document in the same condition. Nothing earned before
\* the reset survives it.
C16_ResetWipesEverything ==
  [][ /\ ResetServed => PostReset(store')
      /\ ResetReceived => PostReset(progress') ]_vars

\* a badge was notified for a passed quiz, then a reset was served and its
\* response received: both documents are back to the defaults
C16_Witness ==
  /\ notified["module-1"] > 0
  /\ resetsIssued = 1
  /\ requests = {} /\ responses = {}
  /\ store = DefaultProgress
  /\ progress = DefaultProgress

(***************************************************************************)
(* Failed requests (claim C17).                                            *)
(***************************************************************************)
FailedKinds == {"lesson", "quiz", "reset"}

\* the server answers a mark-lesson-complete, quiz or reset request with an error
FailureServed ==
  \E req \in requests :
    /\ req.kind \in FailedKinds
    /\ req \notin requests'
    /\ Response(req, FALSE, ErrorPayload) \in responses' \ responses

\* the client's call for such a request threw
FailureReceived ==
  \E resp \in responses :
    resp.kind \in FailedKinds /\ ~resp.ok /\ resp \notin responses'

\* C17: a mark-lesson-complete, quiz-grading or reset request that fails
\* (invalid input or a store failure) leaves the stored Progress document as
\* it was, and the step in which the client learns of the failure leaves the
\* client's progress as it was and shows no confetti and no badge
\* notification for that request.
C17_FailureChangesNothing ==
  [][ /\ FailureServed =>
           /\ store' = store
           /\ hist' = hist
           /\ ackedLessons' = ackedLessons
      /\ FailureReceived =>
           /\ progress' = progress
           /\ confettiActive' = confettiActive
           /\ badgeNotification' = badgeNotification
           /\ notified' = notified ]_vars

\* a submission that would have passed failed on the store, and a lesson
\* completion failed too: the store records neither
C17_Witness ==
  /\ \E resp \in responses :
       /\ resp.kind = "quiz" /\ ~resp.ok
       /\ GradeQuiz(QuizDefs[resp.args.quizId], resp.args.answers).passed
       /\ ~store.modules[resp.args.moduleId].quizPassed
       /\ store.modules[resp.args.moduleId].quizAttempts = 0
  /\ \E resp \in responses :
       /\ resp.kind = "lesson" /\ ~resp.ok
       /\ resp.args.lessonId \notin store.modules[resp.args.moduleId].lessonsCompleted
  /\ ~confettiActive /\ badgeNotification = NoId

(***************************************************************************)
(* Rejected scenario choices (claim C18).                                  *)
(***************************************************************************)
\* a choice request whose stepId is unknown or whose choiceIndex is out of range
InvalidChoice(req) == req.kind = "choice" /\ ~ChoiceRequestValid(req.body)

\* the client's submitScenarioChoice() threw
RejectionReceived ==
  \E resp \in responses : resp.kind = "choice" /\ ~resp.ok /\ resp \notin responses'

\* C18: a scenario-choice request with an unknown stepId or an out-of-range
\* choiceIndex is answered with an error, not dropped, and leaves
\* Progress.scenarios as it was; the step in which the client learns of a
\* refused choice leaves its running points, current step and completion
\* result as they were and sets a feedback message.
C18_InvalidChoiceRejected ==
  [][ /\ \A req \in requests :
           InvalidChoice(req) /\ req \notin requests' =>
             /\ Response(req, FALSE, ErrorPayload) \in responses'
             /\ store'.scenarios = store.scenarios
             /\ completions' = completions
      /\ RejectionReceived =>
           /\ runningPoints' = runningPoints
           /\ currentStepId' = currentStepId
           /\ result' = result
           /\ scenarioDone' = scenarioDone
           /\ feedback' # NoFeedback ]_vars

\* on the second step, one point earned, the learner picked a choice past
\* the server's list; the refusal came back and the engine shows a message
C18_Witness ==
  /\ currentStepId = "s2"
  /\ selectedChoice = Len(CurrentChoices)
  /\ ~submitting
  /\ feedback = ErrorMessage
  /\ runningPoints = 1
  /\ ~result.present
  /\ store.scenarios = NoScenarios

(***************************************************************************)
(* Try Again (claim C19).                                                  *)
(***************************************************************************)
\* the result card is dismissed
TryAgainClicked == result.present /\ ~result'.present

\* C19: Try Again on a completed scenario puts the engine on the initial
\* step steps[0] with running points 0, no selected choice and no result;
\* while the engine waits on the initial step its running points are 0, and
\* every choice submitted from the initial step is submitted with an
\* accumulated total of 0: no points of an earlier attempt enter the new one.
C19_TryAgainStartsOver ==
  /\ [](/\ (currentStepId = FirstStepId /\ ~result.present) => runningPoints = 0
        /\ \A req \in requests :
             req.kind = "choice" /\ req.args.stepId = FirstStepId =>
               req.args.accumulatedPoints = 0)
  /\ [][TryAgainClicked =>
          /\ currentStepId' = FirstStepId
          /\ runningPoints' = 0
          /\ selectedChoice' = Absent
          /\ result' = NoFinalResult]_vars

\* an attempt ended with 6 points, the learner clicked Try Again and
\* submitted a first choice of the new attempt
C19_Witness ==
  /\ scenarioDone.present /\ scenarioDone.totalPoints = 6
  /\ ~result.present
  /\ currentStepId = FirstStepId
  /\ runningPoints = 0
  /\ \E req \in requests :
       /\ req.kind = "choice"
       /\ req.args.stepId = FirstStepId
       /\ req.args.accumulatedPoints = 0

(***************************************************************************)
(* Completed lessons belong to their module (claim C20).                   *)
(***************************************************************************)
LessonIdsOf(module) ==
  {getLessonId(getModuleLessons(module)[j]) : j \in DOMAIN getModuleLessons(module)}

OnlyOwnLessons(doc) ==
  \A i \in DOMAIN ModuleDefs :
    LET module == ModuleDefs[i]
        moduleProgress == getModuleProgress(doc, getModuleId(module))
    IN /\ moduleProgress.lessonsCompleted \subseteq LessonIdsOf(module)
       /\ getCompletedLessonCount(module, moduleProgress)
            = Cardinality(moduleProgress.lessonsCompleted)

\* a mark-lesson-complete request for a lesson that is not one of the module's
ForeignLesson(req) ==
  /\ req.kind = "lesson"
  /\ req.body.moduleId \in ModuleIds
  /\ req.body.lessonId \notin LessonIdsOf(ModuleById(req.body.moduleId))

C21_BadgesOnlyGrow ==
  [][~ResetServed => store.badges \subseteq store'.badges]_vars

\* a capstone save was served on a document that held a cached badge, and
\* the badge is still there
C21_Witness ==
  /\ "risk-framer" \in store.badges
  /\ \E resp \in responses :
       /\ resp.kind = "capstone" /\ resp.ok
       /\ "risk-framer" \in resp.data.badges
       /\ resp.data.capstone # NoCapstone

(***************************************************************************)
(* A recorded score has an attempt (claim C22).                            *)
(***************************************************************************)
ScoreHasAttempt(doc) ==
  \A moduleId \in ModuleIds :
    getModuleProgress(doc, moduleId).quizScore # Absent =>
      getModuleProgress(doc, moduleId).quizAttempts >= 1

\* C22: in every reachable state, in the stored Progress document and in the
\* client's copy, a module with a recorded quizScore has quizAttempts >= 1.
C22_ScoreImpliesAttempt == ScoreHasAttempt(store) /\ ScoreHasAttempt(progress)

\* a module graded twice: the latest score is recorded with two attempts
C22_Witness ==
  /\ store.modules["module-1"].quizScore = 50
  /\ store.modules["module-1"].quizAttempts = 2
  /\ progress.modules["module-1"].quizAttempts = 2

(***************************************************************************)
(* The client's copy once the network is quiet (claim C23).                *)
(***************************************************************************)
Settled == requests = {} /\ responses = {}

\* C23: once every outstanding request has settled, the progress held by
\* ProgressProvider equals the Progress document in the store, whatever the
\* order in which the responses of refresh, completeLesson, reset and quiz
\* submissions arrived.
C23_SettledClientEqualsStore == Settled => progress = store

(***************************************************************************)
(* The derived badge set over time (claim C24).                            *)
(***************************************************************************)
\* C24: in every step that does not serve a reset, every badge id that
\* deriveEarnedBadgeIds returns for the stored Progress document before the
\* step is returned for the document after it; a quiz retake keeps
\* 'perfect-score' and a scenario replay keeps 'scenario-star'.
C24_DerivedBadgesOnlyGrow ==
  [][~ResetServed =>
       deriveEarnedBadgeIds(store, ModuleDefs) \subseteq
         deriveEarnedBadgeIds(store', ModuleDefs)]_vars

(***************************************************************************)
(* Achievements: quizzes passed against modules completed (claim C26).     *)
(***************************************************************************)
\* C26: in every reachable state of the client's progress, each module whose
\* status is 'completed' is counted as quiz-passed by the Achievements page,
\* so the quizzes-passed count is not below the modules-completed count.
C26_CompletedCountsAsQuizPassed ==
  /\ \A i \in DOMAIN ModuleDefs :
       LET moduleProgress == getModuleProgress(progress, getModuleId(ModuleDefs[i]))
       IN getModuleStatus(ModuleDefs[i], moduleProgress) = "completed" =>
            RowQuizPassed(moduleProgress)
  /\ quizzesPassed(ModuleDefs, progress) >= modulesCompleted(ModuleDefs, progress)

(***************************************************************************)
(* The derived badges against the catalog (claim C29).                     *)
(***************************************************************************)
BadgeCatalogIds == {BADGE_CATALOG[i] : i \in DOMAIN BADGE_CATALOG}

\* C29: whatever ids Progress.badges and the modules' badge definitions
\* contain, the derived earned-badge set is a subset of the ids of
\* BADGE_CATALOG, so the 'earned of total' count is at most the catalog size.
C29_EarnedWithinCatalog ==
  /\ earnedBadges \subseteq BadgeCatalogIds
  /\ Cardinality(earnedBadges) <= Len(BADGE_CATALOG)

(***************************************************************************)
(* The lessons of the route's module (claim C27).                          *)
(***************************************************************************)
\* C27: once every lesson request has settled, the lessons held by
\* useModuleLessons are those of the module id requested last (none for no
\* module id); the response of an earlier request never replaces them.
C27_LessonsOfLatestModule ==
  lessonFetches = {} =>
    /\ lessons = (IF safeModuleId = NoId THEN << >> ELSE LessonsOfModule(safeModuleId))
    /\ ~lessonsLoading

(***************************************************************************)
(* The answers a grading request carries (claim C28).                      *)
(***************************************************************************)
\* something is selected: a number >= 0, a boolean, or a non-empty array
NonEmptySelection(question, answer) ==
  /\ answer.chosen
  /\ question.type = "multiple_choice" => answer.value >= 0
  /\ question.type = "multi_select" => answer.value # << >>

QuestionIndices == DOMAIN normalizedQuestions

\* the quiz page sends a grading request in this step
GradingRequested ==
  \E req \in requests' \ requests : req.kind = "quiz"

\* C28: whatever the learner selected, locked, advanced and retried, every
\* locked question has a non-empty selection and every question before the
\* current one is locked; in the step that issues a grading request every
\* question of the quiz is locked with a non-empty selection, and the answers
\* handed to onSubmit are the selections of all the questions.
C28_GradingRequestCoversEveryQuestion ==
  /\ [](/\ \A i \in submitted :
             NonEmptySelection(normalizedQuestions[i], quizAnswers[i])
        /\ \A i \in QuestionIndices : i <= currentIndex => i \in submitted)
  /\ [][GradingRequested =>
          /\ submitted = QuestionIndices
          /\ \A i \in QuestionIndices :
               NonEmptySelection(normalizedQuestions[i], quizAnswers[i])
          /\ \A req \in requests' \ requests :
               /\ DOMAIN req.args.answers = QuestionIndices
               /\ \A i \in QuestionIndices : req.args.answers[i] = quizAnswers[i].value]_vars

\* after a retry the learner answered and locked the four questions again,
\* the last one after toggling two options, and asked for the results
C28_Witness ==
  /\ issued = 2
  /\ submitted = QuestionIndices
  /\ quizAnswers[4].value = <<0, 2>>
  /\ \E req \in requests :
       req.kind = "quiz" /\ req.args.answers = <<1, 0, FALSE, <<0, 2>>>>

(***************************************************************************)
(* The capstone wizard asks for a system before any step (claim C30).      *)
(***************************************************************************)
\* C30: while CapstoneProject is shown, a current step of 1..5 comes with a
\* selected system, from the state the wizard mounts with onwards; without a
\* saved system the wizard is on step 0.
C30_StepImpliesSystem ==
  capstonePage = "ready" =>
    /\ currentStep \in 1..5 => selectedSystem # ""
    /\ selectedSystem = "" => currentStep = 0

(***************************************************************************)
(* The autosave comes to rest (claim C25).                                 *)
(***************************************************************************)
SaveOutstanding ==
  \/ autosaveTimer
  \/ \E req \in requests : req.kind = "capstone"
  \/ \E resp \in responses : resp.kind = "capstone"

\* a save completes in this step
SaveCompleted ==
  \E resp \in responses \ responses' : resp.kind = "capstone"

\* C25: the learner acts finitely often on the capstone page; after that
\* finitely many saves are sent and then no timeout is pending and no save is
\* on its way, for ever; and the step in which a save completes sets no
\* timeout.
C25_AutosaveQuiesces ==
  /\ <>[](~SaveOutstanding)
  /\ [][SaveCompleted => (autosaveTimer' => autosaveTimer)]_vars

====
